---- MODULE Spec2Model ----
(***************************************************************************)
(* Model of the offline manifest generator of offline_dx_bundler:          *)
(* candidate generation, reference extraction, asset resolution and the    *)
(* collection tree walk.  Strings are sequences of one-character strings,  *)
(* so trimming, prefix tests, substring search and ordering are computed   *)
(* character by character as the Rust code does.                           *)
(***************************************************************************)
EXTENDS Integers, Sequences, FiniteSets, TLC

VARIABLES
  pc,                 \* position of the running operation
  call,               \* arguments of the pure function under test
  builder,            \* CandidateBuilder of generate_asset_candidates
  ret,                \* value returned by the pure function under test
  fs,                 \* the directory tree snapshot (input of the walk)
  selection,          \* the CollectionInclusion predicate (input of the walk)
  stack,              \* call stack of the recursive walk
  asset_map,          \* BTreeMap<(String, String), AssetEntry>
  used_names,         \* BTreeSet<String>
  hero_match_arms,    \* Vec<String>
  hero_asset_paths,   \* BTreeSet<String>
  collection_catalog, \* Vec<CollectionCatalogRecord>
  offline_entries,    \* Vec<OfflineEntryRecord>
  pass,               \* number of the current run of the walk
  previous            \* result of the previous run of the walk

pureVars == <<pc, call, builder, ret>>
walkVars == <<fs, selection, stack, asset_map, used_names, hero_match_arms,
              hero_asset_paths, collection_catalog, offline_entries, pass, previous>>
vars == <<pc, call, builder, ret, fs, selection, stack, asset_map, used_names,
          hero_match_arms, hero_asset_paths, collection_catalog, offline_entries,
          pass, previous>>

(***************************************************************************)
(* Bounds of the model.                                                    *)
(***************************************************************************)
MaxRefLen == 3
MaxRefs == 3
MaxNodes == 3

(***************************************************************************)
(* Strings.                                                                *)
(***************************************************************************)
\* The printable ASCII characters in code order; Ascii[i] has code i + 31
\* (code 96 is spelled out, it cannot be written as a one-character string).
Ascii ==
  <<" ","!","\"","#","$","%","&","'","(",")","*","+",",","-",".","/",
    "0","1","2","3","4","5","6","7","8","9",":",";","<","=",">","?","@",
    "A","B","C","D","E","F","G","H","I","J","K","L","M","N","O","P","Q","R",
    "S","T","U","V","W","X","Y","Z","[","\\","]","^","_","grave",
    "a","b","c","d","e","f","g","h","i","j","k","l","m","n","o","p","q","r",
    "s","t","u","v","w","x","y","z","{","|","}","~">>

AsciiChars == {Ascii[i] : i \in 1..Len(Ascii)}

\* Characters outside ASCII, written by code point: the capital and the
\* small e with acute accent, the small letter kra (a lowercase letter that
\* has no uppercase form) and the Arabic-Indic digit three.
Unicode == <<"U+00C9", "U+00E9", "U+0138", "U+0663">>
UnicodeCode == <<201, 233, 312, 1635>>
UnicodeChars == {Unicode[i] : i \in 1..Len(Unicode)}

\* The code point of a character; the byte order of UTF-8 strings is the
\* order of their code points.
Ord ==
  [c \in AsciiChars \cup UnicodeChars |->
     IF c \in AsciiChars THEN 31 + (CHOOSE i \in 1..Len(Ascii) : Ascii[i] = c)
     ELSE UnicodeCode[CHOOSE i \in 1..Len(Unicode) : Unicode[i] = c]]

IsAsciiDigit(c) == Ord[c] >= 48 /\ Ord[c] <= 57
IsUpper(c) == Ord[c] >= 65 /\ Ord[c] <= 90
IsLower(c) == Ord[c] >= 97 /\ Ord[c] <= 122
\* char::is_alphanumeric: alphabetic or numeric in the Unicode sense
IsAlphanumeric(c) == IsAsciiDigit(c) \/ IsUpper(c) \/ IsLower(c) \/ c \in UnicodeChars
\* char::to_uppercase
ToUpperChar(c) ==
  IF IsLower(c) THEN Ascii[Ord[c] - 32 - 31]
  ELSE IF c = "U+00E9" THEN "U+00C9"
  ELSE c
\* case folding of a case-insensitive pattern
ToLowerChar(c) ==
  IF IsUpper(c) THEN Ascii[Ord[c] + 32 - 31]
  ELSE IF c = "U+00C9" THEN "U+00E9"
  ELSE c
IsWhitespace(c) == c = " "

ToUppercase(s) == [i \in 1..Len(s) |-> ToUpperChar(s[i])]
ToLowercase(s) == [i \in 1..Len(s) |-> ToLowerChar(s[i])]

Min(S) == CHOOSE x \in S : \A y \in S : x <= y
Max(S) == CHOOSE x \in S : \A y \in S : x >= y

\* str < str, byte-wise lexicographic (Ord for String).
StrLess(a, b) ==
  LET n == IF Len(a) < Len(b) THEN Len(a) ELSE Len(b)
      differ == {i \in 1..n : a[i] # b[i]}
  IN IF differ = {} THEN Len(a) < Len(b)
     ELSE LET d == Min(differ) IN Ord[a[d]] < Ord[b[d]]

StrLeq(a, b) == a = b \/ StrLess(a, b)

\* The elements of a BTreeSet<String> in iteration (ascending) order.
RECURSIVE SortedSeq(_)
SortedSeq(S) ==
  IF S = {} THEN <<>>
  ELSE LET m == CHOOSE x \in S : \A y \in S : StrLeq(x, y)
       IN <<m>> \o SortedSeq(S \ {m})

Range(s) == {s[i] : i \in 1..Len(s)}

StartsWith(s, p) == Len(p) <= Len(s) /\ SubSeq(s, 1, Len(p)) = p
EndsWith(s, p) == Len(p) <= Len(s) /\ SubSeq(s, Len(s) - Len(p) + 1, Len(s)) = p

\* str::find starting at index from (1-based); 0 when the pattern does not occur.
FindFrom(s, p, from) ==
  LET hits == {i \in from..(Len(s) - Len(p) + 1) : SubSeq(s, i, i + Len(p) - 1) = p}
  IN IF hits = {} THEN 0 ELSE Min(hits)

StrContains(s, p) == FindFrom(s, p, 1) # 0

\* str::trim_start_matches(c)
TrimStartMatches(s, c) ==
  LET keep == {i \in 1..Len(s) : s[i] # c}
  IN IF keep = {} THEN <<>> ELSE SubSeq(s, Min(keep), Len(s))

\* str::trim_end_matches(c)
TrimEndMatches(s, c) ==
  LET keep == {i \in 1..Len(s) : s[i] # c}
  IN IF keep = {} THEN <<>> ELSE SubSeq(s, 1, Max(keep))

\* str::trim_matches(c)
TrimMatches(s, c) == TrimEndMatches(TrimStartMatches(s, c), c)

\* str::trim (white space on both sides)
TrimWs(s) ==
  LET keep == {i \in 1..Len(s) : ~IsWhitespace(s[i])}
  IN IF keep = {} THEN <<>> ELSE SubSeq(s, Min(keep), Max(keep))

\* str::replace(from, to) for single characters
ReplaceChar(s, from, to) == [i \in 1..Len(s) |-> IF s[i] = from THEN to ELSE s[i]]

Slash == <<"/">>

\* format!("{}/{}", a, b) and format!("{}/{}/{}", a, b, c)
Join2(a, b) == a \o Slash \o b
Join3(a, b, c) == a \o Slash \o b \o Slash \o c

\* All strings over alphabet A of length at most n.
RECURSIVE StringsUpTo(_, _)
StringsUpTo(A, n) ==
  IF n = 0 THEN {<<>>}
  ELSE LET shorter == StringsUpTo(A, n - 1)
       IN shorter \cup {Append(s, c) : s \in shorter, c \in A}

(***************************************************************************)
(* OfflineProjectLayout: the layout the repository's tests build.          *)
(***************************************************************************)
Layout ==
  [entry_assets_dir |-> <<"a","s","s","e","t","s">>,
   entry_markdown_file |-> <<"i","n","d","e","x",".","m","d">>,
   collection_metadata_file |-> <<"c","o","l","l","e","c","t","i","o","n",".","j","s","o","n">>,
   excluded_dir_name |-> <<"p","r","o","d">>,
   excluded_path_fragment |-> <<"/","p","r","o","d","/">>,
   collection_asset_literal_prefix |-> <<"/","c","o","n","t","e","n","t","/","p","r","o","g","r","a","m","s">>,
   collections_dir_name |-> <<"p","r","o","g","r","a","m","s">>]

(***************************************************************************)
(* Option<T>: the empty sequence for None, a one-element sequence for      *)
(* Some(v).                                                                *)
(***************************************************************************)
NoneOpt == <<>>
Some(v) == <<v>>
IsSome(o) == Len(o) = 1
Unwrap(o) == o[1]

\* if value.is_empty() { None } else { Some(value) }
NonEmptyOpt(s) == IF s = <<>> THEN NoneOpt ELSE Some(s)

(***************************************************************************)
(* asset_paths/candidates.rs: generate_asset_candidates.                   *)
(***************************************************************************)
CandidateBuilderNew(layout, entry_id, asset_slug, path) ==
  [layout |-> layout,
   original |-> path,
   trimmed |-> NonEmptyOpt(TrimMatches(path, "/")),
   entry |-> NonEmptyOpt(TrimMatches(entry_id, "/")),
   slug |-> IF IsSome(asset_slug)
            THEN NonEmptyOpt(TrimMatches(Unwrap(asset_slug), "/"))
            ELSE NoneOpt,
   slug_was_provided |-> IsSome(asset_slug),
   seen |-> {},
   result |-> <<>>]

PushKeepingDuplicates(b, candidate) ==
  [b EXCEPT !.seen = @ \cup {candidate}, !.result = Append(@, candidate)]

\* CandidateBuilder::push
Push(b, candidate) ==
  IF candidate \in b.seen THEN b
  ELSE [b EXCEPT !.seen = @ \cup {candidate}, !.result = Append(@, candidate)]

AddOriginalAsFirstCandidate(b) == Push(b, b.original)

\* CandidateBuilder::add_trimmed_candidate
AddTrimmedCandidate(b) ==
  IF IsSome(b.trimmed) THEN Push(b, Unwrap(b.trimmed)) ELSE b

\* CandidateBuilder::add_slug_candidates
AddSlugCandidates(b) ==
  IF ~IsSome(b.trimmed) THEN b
  ELSE LET path == Unwrap(b.trimmed) IN
    IF IsSome(b.slug) THEN
      LET slug == Unwrap(b.slug)
          b1 == Push(b, Join2(slug, path))
      IN IF IsSome(b.entry)
         THEN Push(b1, Join3(Unwrap(b.entry), slug, path))
         ELSE b1
    ELSE IF b.slug_was_provided /\ IsSome(b.entry)
      THEN Push(b, Join2(Unwrap(b.entry), path))
      ELSE b

AddEntryScopeCandidatesSwapped(b) ==
  IF ~(IsSome(b.entry) /\ IsSome(b.trimmed)) THEN b
  ELSE LET entry == Unwrap(b.entry)
           path == Unwrap(b.trimmed)
       IN Push(Push(b, Join2(entry, path)),
               Join3(entry, b.layout.entry_assets_dir, path))

\* CandidateBuilder::add_entry_scope_candidates
AddEntryScopeCandidates(b) ==
  IF ~(IsSome(b.entry) /\ IsSome(b.trimmed)) THEN b
  ELSE LET entry == Unwrap(b.entry)
           path == Unwrap(b.trimmed)
       IN Push(Push(b, Join3(entry, b.layout.entry_assets_dir, path)),
               Join2(entry, path))

\* CandidateBuilder::finish
Finish(b) == Push(b, b.original).result

GenerateAssetCandidates(layout, entry_id, asset_slug, path) ==
  IF path = <<>> THEN <<>>
  ELSE Finish(AddEntryScopeCandidates(AddSlugCandidates(AddTrimmedCandidate(
         CandidateBuilderNew(layout, entry_id, asset_slug, path)))))

(***************************************************************************)
(* asset_paths/bundle.rs and manifest/markdown.rs: resolve_markdown_assets *)
(***************************************************************************)
MakeOfflineAssetPathWithLiteralPrefix(layout, collection_id, relative_path) ==
  ReplaceChar(Join3(layout.collection_asset_literal_prefix, collection_id, relative_path),
              "\\", "/")

\* make_offline_asset_path
MakeOfflineAssetPath(layout, collection_id, relative_path) ==
  ReplaceChar(Join3(layout.collections_dir_name, collection_id, relative_path),
              "\\", "/")

RECURSIVE LastMatchingCandidate(_, _, _)
LastMatchingCandidate(candidates, map, collection_id) ==
  IF candidates = <<>> THEN NoneOpt
  ELSE IF <<collection_id, candidates[Len(candidates)]>> \in DOMAIN map
    THEN Some(map[<<collection_id, candidates[Len(candidates)]>>])
  ELSE LastMatchingCandidate(SubSeq(candidates, 1, Len(candidates) - 1), map, collection_id)

\* the first candidate registered under any collection id
RECURSIVE FirstCandidateOfAnyCollection(_, _, _)
FirstCandidateOfAnyCollection(candidates, map, collection_id) ==
  IF candidates = <<>> THEN NoneOpt
  ELSE IF <<collection_id, Head(candidates)>> \in DOMAIN map
    THEN Some(map[<<collection_id, Head(candidates)>>])
  ELSE IF \E key \in DOMAIN map : key[2] = Head(candidates)
    THEN Some(map[CHOOSE key \in DOMAIN map : key[2] = Head(candidates)])
  ELSE FirstCandidateOfAnyCollection(Tail(candidates), map, collection_id)

\* for candidate in candidates { if let Some(entry) = asset_map.get(..) { ..; break; } }
RECURSIVE FirstMatchingCandidate(_, _, _)
FirstMatchingCandidate(candidates, map, collection_id) ==
  IF candidates = <<>> THEN NoneOpt
  ELSE IF <<collection_id, Head(candidates)>> \in DOMAIN map
    THEN Some(map[<<collection_id, Head(candidates)>>])
  ELSE FirstMatchingCandidate(Tail(candidates), map, collection_id)

ResolveReferenceFoundNeverSet(layout, map, collection_id, entry_id, asset_slug, reference) ==
  LET entry == FirstMatchingCandidate(
                 GenerateAssetCandidates(layout, entry_id, asset_slug, reference),
                 map, collection_id)
  IN [found |-> FALSE,
      path |-> IF IsSome(entry)
               THEN Some(MakeOfflineAssetPath(layout, Unwrap(entry).collection_id,
                                              Unwrap(entry).relative_path))
               ELSE NoneOpt]

\* The body of the loop over the references: what one reference contributes.
ResolveReference(layout, map, collection_id, entry_id, asset_slug, reference) ==
  LET entry == FirstMatchingCandidate(
                 GenerateAssetCandidates(layout, entry_id, asset_slug, reference),
                 map, collection_id)
  IN [found |-> IsSome(entry),
      path |-> IF IsSome(entry)
               THEN Some(MakeOfflineAssetPath(layout, Unwrap(entry).collection_id,
                                              Unwrap(entry).relative_path))
               ELSE NoneOpt]

\* resolve_markdown_assets: (resolved, unresolved)
ResolveMarkdownAssets(layout, references, map, collection_id, entry_id, asset_slug) ==
  LET Outcome(r) == ResolveReference(layout, map, collection_id, entry_id, asset_slug, r)
      NotFound(r) == ~Outcome(r).found
      resolved == {Unwrap(Outcome(r).path) : r \in {x \in references : IsSome(Outcome(x).path)}}
  IN [resolved |-> SortedSeq(resolved),
      unresolved |-> SelectSeq(SortedSeq(references), NotFound)]

(***************************************************************************)
(* Specification of generate_asset_candidates: the inputs are drawn by     *)
(* the initial state, the builder's methods are the steps.                 *)
(***************************************************************************)
WalkIdle ==
  /\ fs = {}
  /\ selection = {}
  /\ stack = <<>>
  /\ asset_map = <<>>
  /\ used_names = {}
  /\ hero_match_arms = <<>>
  /\ hero_asset_paths = {}
  /\ collection_catalog = <<>>
  /\ offline_entries = <<>>
  /\ pass = 0
  /\ previous = <<>>

Str_safety == <<"s","a","f","e","t","y">>
Str_week1 == <<"w","e","e","k","-","1">>
Str_photo == <<"i","m","a","g","e","s","/","p","h","o","t","o",".","p","n","g">>
Str_docs == <<"d","o","c","s","/","i","n","t","r","o",".","m","d">>

CandidateEntryIds == {<<>>, <<"e">>, <<"/">>, <<"/","e","/">>, Str_safety}
CandidateSlugs ==
  {NoneOpt, Some(<<>>), Some(<<"/">>), Some(<<"e">>), Some(<<"s","/">>), Some(Str_week1)}
CandidatePaths == StringsUpTo({"/", "x"}, MaxRefLen) \cup {Str_photo, Str_docs}

InitCandidates ==
  /\ pc = "start"
  /\ call \in [entry_id : CandidateEntryIds, asset_slug : CandidateSlugs,
               path : CandidatePaths]
  /\ builder = <<>>
  /\ ret = <<>>
  /\ WalkIdle

\* if path.is_empty() { return Vec::new(); }
ReturnEmpty ==
  /\ pc = "start"
  /\ call.path = <<>>
  /\ ret' = <<>>
  /\ pc' = "done"
  /\ UNCHANGED <<call, builder>>
  /\ UNCHANGED walkVars

BuilderNew ==
  /\ pc = "start"
  /\ call.path # <<>>
  /\ builder' = CandidateBuilderNew(Layout, call.entry_id, call.asset_slug, call.path)
  /\ pc' = "add_trimmed_candidate"
  /\ UNCHANGED <<call, ret>>
  /\ UNCHANGED walkVars

BuilderAddTrimmed ==
  /\ pc = "add_trimmed_candidate"
  /\ builder' = AddTrimmedCandidate(builder)
  /\ pc' = "add_slug_candidates"
  /\ UNCHANGED <<call, ret>>
  /\ UNCHANGED walkVars

BuilderAddSlug ==
  /\ pc = "add_slug_candidates"
  /\ builder' = AddSlugCandidates(builder)
  /\ pc' = "add_entry_scope_candidates"
  /\ UNCHANGED <<call, ret>>
  /\ UNCHANGED walkVars

BuilderAddEntryScope ==
  /\ pc = "add_entry_scope_candidates"
  /\ builder' = AddEntryScopeCandidates(builder)
  /\ pc' = "finish"
  /\ UNCHANGED <<call, ret>>
  /\ UNCHANGED walkVars

BuilderFinish ==
  /\ pc = "finish"
  /\ ret' = Finish(builder)
  /\ pc' = "done"
  /\ UNCHANGED <<call, builder>>
  /\ UNCHANGED walkVars

NextCandidates ==
  \/ ReturnEmpty
  \/ BuilderNew
  \/ BuilderAddTrimmed
  \/ BuilderAddSlug
  \/ BuilderAddEntryScope
  \/ BuilderFinish

SpecCandidates == InitCandidates /\ [][NextCandidates]_vars

(***************************************************************************)
(* Claims about generate_asset_candidates (checked under SpecCandidates).  *)
(***************************************************************************)
\* A sequence without its repeated elements, first occurrences kept.
RECURSIVE SkipAlreadyAppended(_)
SkipAlreadyAppended(s) ==
  IF s = <<>> THEN <<>>
  ELSE LET init == SubSeq(s, 1, Len(s) - 1)
           last == s[Len(s)]
       IN IF last \in Range(init) THEN SkipAlreadyAppended(init)
          ELSE Append(SkipAlreadyAppended(init), last)

NoDuplicates(s) == \A i, j \in 1..Len(s) : s[i] = s[j] => i = j

\* The list the claim describes.  composite tells whether the candidates
\* built on the trimmed reference (slug/ref, entry/slug/ref, entry/ref,
\* entry/assets-dir/ref) are appended.
ClaimedCandidates(entry_id, asset_slug, path, composite) ==
  LET ref == TrimMatches(path, "/")
      entry == TrimMatches(entry_id, "/")
      supplied == IsSome(asset_slug)
      slug == IF supplied THEN TrimMatches(Unwrap(asset_slug), "/") ELSE <<>>
      first == IF ref # <<>> THEN <<ref>> ELSE <<>>
      bySlug ==
        IF ~composite THEN <<>>
        ELSE IF slug # <<>>
          THEN <<Join2(slug, ref)>>
               \o (IF entry # <<>> THEN <<Join3(entry, slug, ref)>> ELSE <<>>)
        ELSE IF supplied /\ entry # <<>> THEN <<Join2(entry, ref)>>
        ELSE <<>>
      byEntry ==
        IF composite /\ entry # <<>>
        THEN <<Join3(entry, Layout.entry_assets_dir, ref), Join2(entry, ref)>>
        ELSE <<>>
  IN SkipAlreadyAppended(first \o bySlug \o byEntry \o <<path>>)

CandidatesExample ==
  (call.entry_id = Str_safety /\ call.asset_slug = Some(Str_week1)
     /\ call.path = Str_photo)
  => ret = <<Str_photo,
             Join2(Str_week1, Str_photo),
             Join3(Str_safety, Str_week1, Str_photo),
             Join3(Str_safety, Layout.entry_assets_dir, Str_photo),
             Join2(Str_safety, Str_photo)>>

\* C3 as stated: for a non-empty ref the result is the trimmed ref (if
\* non-empty), then the slug, entry/slug and entry scoped candidates whenever
\* slug and entry are non-empty, then the original ref; empty for an empty ref.
C3_Original ==
  pc = "done" =>
    /\ call.path = <<>> => ret = <<>>
    /\ call.path # <<>> =>
         ret = ClaimedCandidates(call.entry_id, call.asset_slug, call.path, TRUE)
    /\ CandidatesExample

\* C3 amended: the slug and entry scoped candidates are appended only when
\* the slash-trimmed ref is non-empty; a ref made only of slashes yields the
\* original ref alone.
C3_CandidatesExact ==
  pc = "done" =>
    /\ call.path = <<>> => ret = <<>>
    /\ call.path # <<>> =>
         ret = ClaimedCandidates(call.entry_id, call.asset_slug, call.path,
                                 TrimMatches(call.path, "/") # <<>>)
    /\ CandidatesExample

C3_Witness ==
  /\ pc = "done"
  /\ call.entry_id = Str_safety
  /\ call.asset_slug = Some(Str_week1)
  /\ call.path = Str_photo
  /\ Len(ret) = 5

\* C4 as stated: for every non-empty ref, also one made only of slashes, the
\* first candidate is the slash-trimmed ref and neither starts nor ends with
\* a slash.
C4_Original ==
  (pc = "done" /\ call.path # <<>>) =>
    /\ ret # <<>>
    /\ ret[1] = TrimMatches(call.path, "/")
    /\ ~StartsWith(ret[1], Slash)
    /\ ~EndsWith(ret[1], Slash)

\* C4 amended: for every ref that is non-empty after trimming its slashes the
\* first candidate is the trimmed ref; a ref made only of slashes yields
\* the original ref as the single candidate.
C4_FirstIsTrimmed ==
  (pc = "done" /\ call.path # <<>>) =>
    IF TrimMatches(call.path, "/") # <<>>
    THEN /\ ret # <<>>
         /\ ret[1] = TrimMatches(call.path, "/")
         /\ ~StartsWith(ret[1], Slash)
         /\ ~EndsWith(ret[1], Slash)
    ELSE ret = <<call.path>>

C4_Witness ==
  /\ pc = "done"
  /\ StartsWith(call.path, Slash)
  /\ EndsWith(call.path, Slash)
  /\ TrimMatches(call.path, "/") # <<>>
  /\ Len(ret) > 2
  /\ ret[1] # call.path

\* C5 as stated: for a non-empty ref the result has no duplicate and its
\* last element is the original, untrimmed ref.
C5_Original ==
  (pc = "done" /\ call.path # <<>>) =>
    /\ NoDuplicates(ret)
    /\ ret # <<>>
    /\ ret[Len(ret)] = call.path

\* C5 amended: the result has no duplicate and contains the original ref
\* exactly once: as its last element when the ref starts or ends with a
\* slash, and otherwise as its first element (the trimmed ref is the
\* original one, and the closing append is skipped as a duplicate).
C5_NoDuplicatesOriginalKept ==
  (pc = "done" /\ call.path # <<>>) =>
    /\ NoDuplicates(ret)
    /\ ret # <<>>
    /\ IF StartsWith(call.path, Slash) \/ EndsWith(call.path, Slash)
       THEN ret[Len(ret)] = call.path
       ELSE ret[1] = call.path
    /\ Cardinality({i \in 1..Len(ret) : ret[i] = call.path}) = 1

C5_Witness ==
  /\ pc = "done"
  /\ EndsWith(call.path, Slash)
  /\ TrimMatches(call.path, "/") # <<>>
  /\ IsSome(builder.entry)
  /\ builder.slug_was_provided
  /\ ~IsSome(builder.slug)
  /\ Len(ret) = 4
  /\ ret[Len(ret)] = call.path

(***************************************************************************)
(* Specification of resolve_markdown_assets: the asset map, the references *)
(* and the entry are drawn by the initial state.                           *)
(***************************************************************************)
Str_img == <<"i","m","g",".","p","n","g">>
Str_slash_img == <<"/","i","m","g",".","p","n","g">>
Str_e_img == <<"e","/","i","m","g",".","p","n","g">>
Str_s_img == <<"s","/","i","m","g",".","p","n","g">>
Str_e_assets_img == <<"e","/","a","s","s","e","t","s","/","i","m","g",".","p","n","g">>
Str_c == <<"c">>
Str_d_backslash_x == <<"d","\\","x">>
Str_CONST == <<"C","O","N","S","T">>

\* The entry an asset map holds under a key, as the resolver's test builds it.
TestAssetEntry(key) ==
  [const_name |-> Str_CONST,
   literal_path |-> <<>>,
   collection_id |-> key[1],
   relative_path |-> key[2]]

ResolveKeys ==
  {<<Str_c, Str_e_assets_img>>, <<Str_c, Str_img>>, <<Str_c, Str_e_img>>,
   <<Str_c, Str_s_img>>, <<Str_d_backslash_x, Str_img>>}

ResolveReferences == {Str_img, Str_slash_img, Str_e_img, <<"x">>, <<>>}

BoundedSubsets(S, n) == {T \in SUBSET S : Cardinality(T) <= n}

InitResolve ==
  /\ pc = "start"
  /\ \E keys \in SUBSET ResolveKeys, refs \in BoundedSubsets(ResolveReferences, MaxRefs),
        cid \in {Str_c, Str_d_backslash_x}, slug \in {NoneOpt, Some(<<"s">>)} :
       call = [asset_map |-> [k \in keys |-> TestAssetEntry(k)],
               references |-> refs,
               collection_id |-> cid,
               entry_id |-> <<"e">>,
               asset_slug |-> slug]
  /\ builder = <<>>
  /\ ret = <<>>
  /\ WalkIdle

Resolve ==
  /\ pc = "start"
  /\ ret' = ResolveMarkdownAssets(Layout, call.references, call.asset_map,
                                  call.collection_id, call.entry_id, call.asset_slug)
  /\ pc' = "done"
  /\ UNCHANGED <<call, builder>>
  /\ UNCHANGED walkVars

NextResolve == Resolve

SpecResolve == InitResolve /\ [][NextResolve]_vars

(***************************************************************************)
(* Claims about resolve_markdown_assets (checked under SpecResolve).       *)
(***************************************************************************)
CallCandidates(r) ==
  GenerateAssetCandidates(Layout, call.entry_id, call.asset_slug, r)

\* The positions of the candidates of reference r that are keys of the map.
MatchingPositions(r) ==
  {i \in 1..Len(CallCandidates(r)) :
     <<call.collection_id, CallCandidates(r)[i]>> \in DOMAIN call.asset_map}

Matches(r) == MatchingPositions(r) # {}

\* The bundle path of the asset the earliest matching candidate of r names.
EarliestMatchPath(r) ==
  LET i == CHOOSE m \in MatchingPositions(r) : \A n \in MatchingPositions(r) : m <= n
      entry == call.asset_map[<<call.collection_id, CallCandidates(r)[i]>>]
  IN ReplaceChar(Join3(Layout.collections_dir_name, entry.collection_id,
                       entry.relative_path), "\\", "/")

\* C2: every reference resolves to the asset of its FIRST matching candidate;
\* the resolved paths are exactly those of the earliest matches, the assets
\* of later matching candidates contribute nothing.
C2_FirstCandidateWins ==
  pc = "done" =>
    Range(ret.resolved) = {EarliestMatchPath(r) : r \in {x \in call.references : Matches(x)}}

C2_Witness ==
  /\ pc = "done"
  /\ call.references = {Str_img}
  /\ Cardinality(MatchingPositions(Str_img)) >= 3
  /\ Len(ret.resolved) = 1

Occurrences(s, x) == Cardinality({i \in 1..Len(s) : s[i] = x})

StrictlyAscending(s) == \A i \in 1..(Len(s) - 1) : StrLess(s[i], s[i + 1])

\* C6: the references are partitioned: a reference with a matching candidate
\* contributes its bundle path to the resolved list and is absent from the
\* unresolved list, a reference without one occurs exactly once in the
\* unresolved list and contributes no path; the resolved list is sorted
\* ascending without duplicates.
C6_ResolvedUnresolvedPartition ==
  pc = "done" =>
    /\ \A r \in call.references :
         IF Matches(r)
         THEN /\ Occurrences(ret.resolved, EarliestMatchPath(r)) = 1
              /\ Occurrences(ret.unresolved, r) = 0
         ELSE Occurrences(ret.unresolved, r) = 1
    /\ Range(ret.unresolved) \subseteq call.references
    /\ Range(ret.resolved) \subseteq
         {EarliestMatchPath(r) : r \in {x \in call.references : Matches(x)}}
    /\ StrictlyAscending(ret.resolved)

\* Two references resolve to the same asset and a third matches nothing.
C6_Witness ==
  /\ pc = "done"
  /\ call.references = {Str_img, Str_slash_img, <<"x">>}
  /\ Matches(Str_img) /\ Matches(Str_slash_img)
  /\ Len(ret.resolved) = 1
  /\ ret.unresolved = <<<<"x">>>>

Str_programs_c_e_assets_img ==
  <<"p","r","o","g","r","a","m","s","/","c","/","e","/","a","s","s","e","t","s","/",
    "i","m","g",".","p","n","g">>

Str_http == <<"h","t","t","p">>
Str_colon_slashes == <<":","/","/">>
Str_data_colon == <<"d","a","t","a",":">>
Str_mailto_colon == <<"m","a","i","l","t","o",":">>

\* Regex (?i)^https?://
MatchesHttpPattern(lower) ==
  /\ StartsWith(lower, Str_http)
  /\ LET rest == SubSeq(lower, 5, Len(lower))
     IN \/ StartsWith(rest, Str_colon_slashes)
        \/ (StartsWith(rest, <<"s">>) /\ StartsWith(Tail(rest), Str_colon_slashes))

ShouldIgnoreCaseSensitive(value) ==
  \/ MatchesHttpPattern(value)
  \/ StartsWith(value, Str_data_colon)
  \/ StartsWith(value, Str_mailto_colon)

\* should_ignore_asset_reference: any of the three case-insensitive patterns
ShouldIgnoreAssetReference(value) ==
  \/ MatchesHttpPattern(ToLowercase(value))
  \/ StartsWith(ToLowercase(value), Str_data_colon)
  \/ StartsWith(ToLowercase(value), Str_mailto_colon)

(***************************************************************************)
(* manifest/markdown.rs: collect_markdown_asset_references.                *)
(***************************************************************************)
\* add_reference
AddReference(references, value) ==
  IF ShouldIgnoreAssetReference(value) THEN references ELSE references \cup {value}

\* One of the two loops of extract_attribute_values: pattern is attribute="
\* or attribute=', quote the closing quote, start the index the search
\* resumes at.
RECURSIVE AttributeLoop(_, _, _, _, _)
AttributeLoop(fragment, pattern, quote, start, references) ==
  LET pos == FindFrom(fragment, pattern, start)
      attr_start == pos + Len(pattern)
      end == FindFrom(fragment, quote, attr_start)
  IN IF pos = 0 THEN references
     ELSE IF end = 0 THEN references
     ELSE AttributeLoop(fragment, pattern, quote, end + 1,
                        AddReference(references, SubSeq(fragment, attr_start, end - 1)))

\* extract_attribute_values
ExtractAttributeValues(fragment, attribute, references) ==
  AttributeLoop(fragment, attribute \o <<"=","'">>, <<"'">>, 1,
    AttributeLoop(fragment, attribute \o <<"=","\"">>, <<"\"">>, 1, references))

\* The character loop of extract_inline_asset_values; i is the index of the
\* next character chars.next() returns.  The outer loop advances to the
\* first '!' that is followed by '[' (bang), the inner loop, which starts at
\* that '[', to the first ']' that is followed by '(' (j); the path runs to
\* the next ')' or to the end of the fragment.
RECURSIVE ScanImage(_, _, _)
ScanImage(fragment, i, references) ==
  LET bang == FindFrom(fragment, <<"!","[">>, i)
      j == FindFrom(fragment, <<"]","(">>, bang + 1)
      close == FindFrom(fragment, <<")">>, j + 2)
      path == IF close = 0 THEN SubSeq(fragment, j + 2, Len(fragment))
              ELSE SubSeq(fragment, j + 2, close - 1)
  IN IF bang = 0 THEN references
     ELSE IF j = 0 THEN references
     ELSE IF close = 0 THEN AddReference(references, TrimWs(path))
     ELSE ScanImage(fragment, close + 1, AddReference(references, TrimWs(path)))

Str_src == <<"s","r","c">>
Str_href == <<"h","r","e","f">>
Str_poster == <<"p","o","s","t","e","r">>

\* extract_inline_asset_values
ExtractInlineAssetValues(fragment, references) ==
  ScanImage(fragment, 1,
    ExtractAttributeValues(fragment, Str_poster,
      ExtractAttributeValues(fragment, Str_href,
        ExtractAttributeValues(fragment, Str_src, references))))

\* A markdown text is the sequence of its inline nodes: images, links, raw
\* HTML and text runs.  Parser::new_ext(markdown, options) yields for an
\* image Start(Tag::Image{dest_url}), Text(alt), End(TagEnd::Image), for a
\* link Start(Tag::Link{dest_url}), Text(text), End(TagEnd::Link), for a
\* heading Start(Tag::Heading), Text(text), End(TagEnd::Heading), and one
\* Html, InlineHtml or Text event for the other nodes.
Event(kind, value) == [kind |-> kind, value |-> value]

NodeEvents(node) ==
  CASE node.kind = "image" ->
         <<Event("StartImage", node.dest), Event("Text", node.text), Event("EndImage", <<>>)>>
    [] node.kind = "link" ->
         <<Event("StartLink", node.dest), Event("Text", node.text), Event("EndLink", <<>>)>>
    [] node.kind = "heading" ->
         <<Event("StartHeading", <<>>), Event("Text", node.text), Event("EndHeading", <<>>)>>
    [] node.kind = "html" -> <<Event("Html", node.text)>>
    [] node.kind = "inline_html" -> <<Event("InlineHtml", node.text)>>
    [] OTHER -> <<Event("Text", node.text)>>

RECURSIVE Parser(_)
Parser(markdown) ==
  IF markdown = <<>> THEN <<>>
  ELSE NodeEvents(Head(markdown)) \o Parser(Tail(markdown))

\* The match of collect_markdown_asset_references on one event.
ReferencesOfEvent(references, event) ==
  CASE event.kind \in {"StartImage", "EndImage"} -> references
    [] event.kind = "StartLink" -> AddReference(references, event.value)
    [] event.kind = "EndLink" -> references
    [] event.kind \in {"Html", "InlineHtml"} ->
         ExtractInlineAssetValues(event.value, references)
    [] event.kind = "Text" ->
         IF StartsWith(event.value, <<"!","[">>) \/ StrContains(event.value, <<"]","(">>)
         THEN ExtractInlineAssetValues(event.value, references)
         ELSE references
    [] OTHER -> references

RECURSIVE ReferencesOfEvents(_, _)
ReferencesOfEvents(references, events) ==
  IF events = <<>> THEN references
  ELSE ReferencesOfEvents(ReferencesOfEvent(references, Head(events)), Tail(events))

\* collect_markdown_asset_references
CollectMarkdownAssetReferences(markdown) == ReferencesOfEvents({}, Parser(markdown))

(***************************************************************************)
(* Specification of collect_markdown_asset_references: the markdown body   *)
(* is drawn by the initial state.                                          *)
(***************************************************************************)
Node(kind, dest, text) == [kind |-> kind, dest |-> dest, text |-> text]

Str_image_png == <<"i","m","a","g","e",".","p","n","g">>
Str_video_mp4 == <<"v","i","d","e","o",".","m","p","4">>
Str_d_pdf == <<"d",".","p","d","f">>
Str_HTTPS_x == <<"H","T","T","P","S",":","/","/","x">>
Str_http_x_i_png == <<"h","t","t","p",":","/","/","x","/","i",".","p","n","g">>
Str_p_jpg == <<"p",".","j","p","g">>
Str_t_png == <<"t",".","p","n","g">>
Str_m_mp4 == <<"m",".","m","p","4">>

\* ![Alt](image.png)
NodeImage == Node("image", Str_image_png, <<"A","l","t">>)
NodeSpace == Node("text", <<>>, <<" ">>)
\* <img src="video.mp4">
NodeImgTag ==
  Node("inline_html", <<>>,
       <<"<","i","m","g"," ","s","r","c","=","\"","v","i","d","e","o",".","m","p","4","\"",">">>)
\* [t](d.pdf)
NodeLink == Node("link", Str_d_pdf, <<"t">>)
\* [t](HTTPS://x)
NodeLinkHttps == Node("link", Str_HTTPS_x, <<"t">>)
\* ![a](http://x/i.png)
NodeImageHttp == Node("image", Str_http_x_i_png, <<"a">>)
\* <a href='mailto:a' poster="p.jpg">
NodeAnchorTag ==
  Node("inline_html", <<>>,
       <<"<","a"," ","h","r","e","f","=","'","m","a","i","l","t","o",":","a","'"," ",
         "p","o","s","t","e","r","=","\"","p",".","j","p","g","\"",">">>)
\* a text run holding image syntax the parser left alone: ![a]( Data:x )
NodeTextDataImage ==
  Node("text", <<>>, <<"!","[","a","]","("," ","D","a","t","a",":","x"," ",")">>)
\* a text run holding image syntax the parser left alone: ![a](t.png)
NodeTextImage == Node("text", <<>>, <<"!","[","a","]","(","t",".","p","n","g",")">>)
\* an HTML block: <video src='m.mp4'>
NodeVideoBlock ==
  Node("html", <<>>,
       <<"<","v","i","d","e","o"," ","s","r","c","=","'","m",".","m","p","4","'",">">>)

MarkdownNodes ==
  {NodeImage, NodeSpace, NodeImgTag, NodeLink, NodeLinkHttps, NodeImageHttp,
   NodeAnchorTag, NodeTextDataImage, NodeTextImage, NodeVideoBlock}

RECURSIVE SeqsUpTo(_, _)
SeqsUpTo(S, n) ==
  IF n = 0 THEN {<<>>}
  ELSE LET shorter == SeqsUpTo(S, n - 1)
       IN shorter \cup {Append(s, x) : s \in shorter, x \in S}

InitReferences ==
  /\ pc = "start"
  /\ \E markdown \in SeqsUpTo(MarkdownNodes, MaxNodes) : call = [markdown |-> markdown]
  /\ builder = <<>>
  /\ ret = {}
  /\ WalkIdle

CollectReferences ==
  /\ pc = "start"
  /\ ret' = CollectMarkdownAssetReferences(call.markdown)
  /\ pc' = "done"
  /\ UNCHANGED <<call, builder>>
  /\ UNCHANGED walkVars

NextReferences == CollectReferences

SpecReferences == InitReferences /\ [][NextReferences]_vars

(***************************************************************************)
(* Claims about collect_markdown_asset_references (SpecReferences).        *)
(***************************************************************************)
IgnoredPrefixes ==
  {<<"h","t","t","p",":","/","/">>, <<"h","t","t","p","s",":","/","/">>,
   <<"d","a","t","a",":">>, <<"m","a","i","l","t","o",":">>}

\* r starts, case-insensitively, with http://, https://, data: or mailto:
HasIgnoredPrefix(r) ==
  \E p \in IgnoredPrefixes :
    /\ Len(r) >= Len(p)
    /\ \A i \in 1..Len(p) : ToLowerChar(r[i]) = p[i]

\* The values v of attribute="v" and attribute='v' in an HTML fragment.
QuotedAttributeValues(fragment) ==
  {SubSeq(fragment, i, j) : <<i, j>> \in
     {x \in (1..(Len(fragment) + 1)) \X (0..Len(fragment)) :
        /\ x[2] >= x[1] - 1
        /\ x[2] < Len(fragment)
        /\ \E attribute \in {Str_src, Str_href, Str_poster}, q \in {"\"", "'"} :
             /\ EndsWith(SubSeq(fragment, 1, x[1] - 1), attribute \o <<"=", q>>)
             /\ fragment[x[2] + 1] = q
             /\ q \notin Range(SubSeq(fragment, x[1], x[2]))}}

NodesOfKind(kinds) ==
  {call.markdown[i] : i \in {n \in 1..Len(call.markdown) : call.markdown[n].kind \in kinds}}

\* C8: the result holds every non-ignored reference of the body: every link
\* destination, every image destination and every quoted src, href and
\* poster value of raw or inline HTML; the body
\* ![Alt](image.png) <img src="video.mp4"> yields exactly
\* {image.png, video.mp4}.
C8_CollectsAllReferences ==
  pc = "done" =>
    /\ \A n \in NodesOfKind({"link", "image"}) :
         ~HasIgnoredPrefix(n.dest) => n.dest \in ret
    /\ \A n \in NodesOfKind({"html", "inline_html"}) :
         \A v \in QuotedAttributeValues(n.text) : ~HasIgnoredPrefix(v) => v \in ret
    /\ call.markdown = <<NodeImage, NodeSpace, NodeImgTag>>
         => ret = {Str_image_png, Str_video_mp4}

NoOverrides ==
  [entry_assets_dir |-> NoneOpt,
   entry_markdown_file |-> NoneOpt,
   collection_metadata_file |-> NoneOpt,
   excluded_dir_name |-> NoneOpt,
   excluded_path_fragment |-> NoneOpt,
   collection_asset_literal_prefix |-> NoneOpt]

\* EntryFrontmatterRecord::default()
DefaultFrontmatter == [title |-> NoneOpt, section |-> NoneOpt, order |-> NoneOpt]

\* A readable file that is neither a JSON document nor has front matter.
Blank ==
  [readable |-> TRUE, json |-> FALSE, meta |-> NoneOpt, overrides |-> NoOverrides,
   yaml |-> "none", frontmatter |-> DefaultFrontmatter, body |-> <<>>]

\* A file read_to_string fails on.
Unreadable == [Blank EXCEPT !.readable = FALSE]

\* A JSON document: meta is what serde_json::from_value::<CollectionMetaRecord>
\* gives for the payload (None when the required title is missing).
Metadata(meta, overrides) == [Blank EXCEPT !.json = TRUE, !.meta = meta, !.overrides = overrides]

\* CollectionMetaRecord (description and version are carried along untouched).
Meta(title, asset_slug, hero_image) ==
  Some([title |-> title, asset_slug |-> asset_slug, hero_image |-> hero_image])

\* A markdown file.  yaml tells what its front matter block is: "none" when
\* there is no block, "record" when it deserializes into
\* EntryFrontmatterRecord (frontmatter is the record), "other" when it is
\* YAML that does not, "error" when Matter::parse fails on it.
Markdown(frontmatter, body) ==
  [Blank EXCEPT !.yaml = "record", !.frontmatter = frontmatter, !.body = body]
MarkdownWith(yaml, body) == [Blank EXCEPT !.yaml = yaml, !.body = body]

Dir(path) == [path |-> path, kind |-> "dir", content |-> Blank]
\* A directory fs::read_dir fails on.
UnreadableDir(path) == [path |-> path, kind |-> "dir", content |-> Unreadable]
File(path, content) == [path |-> path, kind |-> "file", content |-> content]

FileName(node) == node.path[Len(node.path)]

\* Path::exists
Exists(tree, path) == \E node \in tree : node.path = path

\* Path::is_dir
IsDir(tree, path) == \E node \in tree : node.path = path /\ node.kind = "dir"

\* fs::read_dir: the children of a directory; nothing to iterate when the
\* path is not a directory that can be read.
ReadDir(tree, path) ==
  IF path = <<>> \/ \E node \in tree : /\ node.path = path /\ node.kind = "dir"
                                      /\ node.content.readable
  THEN {node \in tree : Len(node.path) = Len(path) + 1
                        /\ SubSeq(node.path, 1, Len(path)) = path}
  ELSE {}

\* fs::read_to_string(path).ok()
ReadToString(tree, path) ==
  LET found == {node \in tree : node.path = path /\ node.kind = "file"
                                /\ node.content.readable}
  IN IF found = {} THEN NoneOpt ELSE Some((CHOOSE node \in found : TRUE).content)

\* config.rs: load_document and split_document
LoadDocument(tree, path) ==
  LET content == ReadToString(tree, path)
  IN IF IsSome(content) /\ Unwrap(content).json
     THEN Some([payload |-> Unwrap(content).meta, overrides |-> Unwrap(content).overrides])
     ELSE NoneOpt

\* the overrides merged into the caller's layout instead of the inherited one
ApplyToDefaultLayout(overrides, layout) ==
  [field \in DOMAIN layout |->
     IF field \in DOMAIN overrides /\ IsSome(overrides[field])
     THEN Unwrap(overrides[field])
     ELSE Layout[field]]

\* config.rs: CollectionConfigOverrides::apply_to_layout
ApplyToLayout(overrides, layout) ==
  [field \in DOMAIN layout |->
     IF field \in DOMAIN overrides /\ IsSome(overrides[field])
     THEN Unwrap(overrides[field])
     ELSE layout[field]]

\* manifest/markdown.rs: parse_entry_markdown
ParseEntryMarkdown(tree, path) ==
  LET content == ReadToString(tree, path)
  IN IF IsSome(content) /\ Unwrap(content).yaml # "error"
     THEN Some([frontmatter |-> IF Unwrap(content).yaml = "record"
                                THEN Unwrap(content).frontmatter
                                ELSE DefaultFrontmatter,
                body |-> Unwrap(content).body])
     ELSE NoneOpt

(***************************************************************************)
(* selection.rs: CollectionSelection.                                      *)
(***************************************************************************)
\* a rule matching every id it is a string prefix of
ScopeMatchesPrefix(rule, candidate) == StartsWith(candidate, rule)

ScopeMatches(rule, candidate) ==
  \/ candidate = rule
  \/ /\ StartsWith(candidate, rule)
     /\ StartsWith(SubSeq(candidate, Len(rule) + 1, Len(candidate)), Slash)

IsIncluded(sel, collection_id) ==
  IF \E value \in sel.exclude : ScopeMatches(value, collection_id) THEN FALSE
  ELSE IF IsSome(sel.include)
       THEN \E value \in Unwrap(sel.include) : ScopeMatches(value, collection_id)
       ELSE TRUE

(***************************************************************************)
(* manifest/scanning.rs: sanitize_const_name.                              *)
(***************************************************************************)
DigitChars == <<"0","1","2","3","4","5","6","7","8","9">>

\* counter.to_string()
RECURSIVE ToDecimal(_)
ToDecimal(n) ==
  IF n < 10 THEN <<DigitChars[n + 1]>>
  ELSE ToDecimal(n \div 10) \o <<DigitChars[(n % 10) + 1]>>

\* First index of the maximal run of underscores that holds index i.
RunStart(s, i) == 1 + Max({0} \cup {j \in 1..i : s[j] # "_"})

\* base.replace("__", "_"): matches are taken left to right without overlap,
\* so every second underscore of a run is dropped.
ReplaceDoubleUnderscore(s) ==
  LET keep == {i \in 1..Len(s) : s[i] # "_" \/ (i - RunStart(s, i)) % 2 = 0}
      nth(n) == CHOOSE i \in keep : Cardinality({j \in keep : j <= i}) = n
  IN [n \in 1..Cardinality(keep) |-> s[nth(n)]]

\* while base.contains("__") { base = base.replace("__", "_") }
RECURSIVE CollapseUnderscores(_)
CollapseUnderscores(base) ==
  IF StrContains(base, <<"_","_">>)
  THEN CollapseUnderscores(ReplaceDoubleUnderscore(base))
  ELSE base

\* The base identifier before the collision counter is applied.
SanitizeBase(program_id, relative_path) ==
  LET upper == ToUppercase(program_id \o <<"_">> \o relative_path)
      mapped == [i \in 1..Len(upper) |-> IF IsAlphanumeric(upper[i]) THEN upper[i] ELSE "_"]
      collapsed == CollapseUnderscores(mapped)
  IN IF collapsed # <<>> /\ IsAsciiDigit(collapsed[1]) THEN <<"_">> \o collapsed
     ELSE collapsed

\* the first candidate taken whether it is used or not
CounterLoopFirst(base, candidate, counter, used) == candidate

\* while used.contains(&candidate) { candidate = format!("{base}_{counter}"); counter += 1 }
RECURSIVE CounterLoop(_, _, _, _)
CounterLoop(base, candidate, counter, used) ==
  IF candidate \in used
  THEN CounterLoop(base, base \o <<"_">> \o ToDecimal(counter), counter + 1, used)
  ELSE candidate

SanitizeConstName(program_id, relative_path, used) ==
  LET base == SanitizeBase(program_id, relative_path)
  IN CounterLoop(base, base, 1, used)

(***************************************************************************)
(* manifest/markdown.rs: parse_order_from_id and extract_first_heading.    *)
(***************************************************************************)
\* usize::MAX, at the width of the model's integers.
UsizeMax == 2147483647

\* digits.parse::<usize>().ok()
RECURSIVE ParseUsize(_, _)
ParseUsize(digits, acc) ==
  IF digits = <<>> THEN Some(acc)
  ELSE LET d == Ord[Head(digits)] - Ord["0"]
       IN IF acc > (UsizeMax - d) \div 10 THEN NoneOpt
          ELSE ParseUsize(Tail(digits), acc * 10 + d)

ParseOrderFromId(id) ==
  LET dash == FindFrom(id, <<"-">>, 1)
      prefix == IF dash = 0 THEN id ELSE SubSeq(id, 1, dash - 1)
      other == {i \in 1..Len(prefix) : ~IsAsciiDigit(prefix[i])}
      digits == IF other = {} THEN prefix ELSE SubSeq(prefix, 1, Min(other) - 1)
  IN IF digits = <<>> THEN NoneOpt ELSE ParseUsize(digits, 0)

RECURSIVE HeadingLoop(_, _, _)
HeadingLoop(events, in_heading, heading_text) ==
  IF events = <<>> THEN NoneOpt
  ELSE LET event == Head(events)
           rest == Tail(events)
       IN CASE event.kind = "StartHeading" -> HeadingLoop(rest, TRUE, <<>>)
            [] event.kind = "EndHeading" ->
                 IF in_heading /\ TrimWs(heading_text) # <<>>
                 THEN Some(TrimWs(heading_text))
                 ELSE HeadingLoop(rest, FALSE, heading_text)
            [] event.kind = "Text" /\ in_heading ->
                 HeadingLoop(rest, in_heading, heading_text \o event.value)
            [] OTHER -> HeadingLoop(rest, in_heading, heading_text)

ExtractFirstHeading(body) == HeadingLoop(Parser(body), FALSE, <<>>)

\* serde_json::to_string(&str): the text between double quotes, with the
\* quote and the backslash escaped.
RECURSIVE JsonEscape(_)
JsonEscape(s) ==
  IF s = <<>> THEN <<>>
  ELSE (CASE Head(s) = "\"" -> <<"\\","\"">>
          [] Head(s) = "\\" -> <<"\\","\\">>
          [] OTHER -> <<Head(s)>>) \o JsonEscape(Tail(s))

JsonToString(s) == <<"\"">> \o JsonEscape(s) \o <<"\"">>

\* format!("        {} => Some(&{}),", collection_literal, entry.const_name)
HeroMatchArm(collection_id, const_name) ==
  <<" "," "," "," "," "," "," "," ">> \o JsonToString(collection_id) \o <<" ","=",">"," ","S","o","m","e","(","&">> \o const_name \o <<")",",">>

(***************************************************************************)
(* Directory trees and selections the walk is run on.                      *)
(***************************************************************************)
NodeHeadingIntro == Node("heading", <<>>, <<"I","n","t","r","o">>)
\* a heading without text, and a heading whose text is padded
NodeHeadingBlank == Node("heading", <<>>, <<" ">>)
NodeHeadingPadded == Node("heading", <<>>, <<" ","Z"," ">>)
\* [t](img.png)
NodeLinkImg == Node("link", Str_img, <<"t">>)

\* Two collections at the top.  The first has a nested collection, a hero
\* image that is on disk, an entry that links one of its own assets, a
\* directory named as the excluded directory both below its assets
\* directory and at its top, where it is an entry.  The second has a hero
\* image that is not on disk and an entry of the same name as the first's,
\* linking the same file name, which only the first collection has.
TreeNested ==
  { Dir(<<<<".","g","i","t">>>>),
    File(<<<<"r","e","a","d","m","e",".","t","x","t">>>>, Blank),
    Dir(<<<<"a">>>>),
    File(<<<<"a">>, <<"c","o","l","l","e","c","t","i","o","n",".","j","s","o","n">>>>,
         Metadata(Meta(<<"A">>, NoneOpt, Some(<<"/","a","s","s","e","t","s","/","c","o","v","e","r",".","p","n","g">>)), NoOverrides)),
    Dir(<<<<"a">>, <<"a","s","s","e","t","s">>>>),
    File(<<<<"a">>, <<"a","s","s","e","t","s">>, <<"c","o","v","e","r",".","p","n","g">>>>, Blank),
    Dir(<<<<"a">>, <<"a","s","s","e","t","s">>, <<"i">>>>),
    Dir(<<<<"a">>, <<"a","s","s","e","t","s">>, <<"i">>, <<"p","r","o","d">>>>),
    File(<<<<"a">>, <<"a","s","s","e","t","s">>, <<"i">>, <<"p","r","o","d">>, <<"x",".","p","n","g">>>>, Blank),
    Dir(<<<<"a">>, <<"0","1","-","i","n","t","r","o">>>>),
    File(<<<<"a">>, <<"0","1","-","i","n","t","r","o">>, <<"i","n","d","e","x",".","m","d">>>>,
         Markdown(DefaultFrontmatter, <<NodeHeadingIntro, NodeLinkImg>>)),
    Dir(<<<<"a">>, <<"0","1","-","i","n","t","r","o">>, <<"a","s","s","e","t","s">>>>),
    File(<<<<"a">>, <<"0","1","-","i","n","t","r","o">>, <<"a","s","s","e","t","s">>, <<"i","m","g",".","p","n","g">>>>, Blank),
    Dir(<<<<"a">>, <<"p","r","o","d">>>>),
    File(<<<<"a">>, <<"p","r","o","d">>, <<"i","n","d","e","x",".","m","d">>>>, Blank),
    Dir(<<<<"a">>, <<"s","u","b">>>>),
    File(<<<<"a">>, <<"s","u","b">>, <<"c","o","l","l","e","c","t","i","o","n",".","j","s","o","n">>>>,
         Metadata(Meta(<<"S">>, NoneOpt, NoneOpt), NoOverrides)),
    Dir(<<<<"b">>>>),
    File(<<<<"b">>, <<"c","o","l","l","e","c","t","i","o","n",".","j","s","o","n">>>>,
         Metadata(Meta(<<"B">>, NoneOpt, Some(<<"h","e","r","o",".","p","n","g">>)), NoOverrides)),
    Dir(<<<<"b">>, <<"0","1","-","i","n","t","r","o">>>>),
    File(<<<<"b">>, <<"0","1","-","i","n","t","r","o">>, <<"i","n","d","e","x",".","m","d">>>>,
         Markdown(DefaultFrontmatter, <<NodeLinkImg>>)) }

\* One collection whose assets directory holds two files that sanitize to
\* the same identifier (f-g, f_g) and a file and a directory entry that
\* normalise to the same relative path (the file d\e, and e in directory d);
\* the hero image names that path with a backslash.
TreeCollide ==
  { Dir(<<<<"c">>>>),
    File(<<<<"c">>, <<"c","o","l","l","e","c","t","i","o","n",".","j","s","o","n">>>>,
         Metadata(Meta(<<"C">>, Some(<<"s">>), Some(<<"a","s","s","e","t","s","\\","d","\\","e">>)), NoOverrides)),
    File(<<<<"c">>, <<"n","o","t","e","s",".","t","x","t">>>>, Blank),
    Dir(<<<<"c">>, <<"a","s","s","e","t","s">>>>),
    File(<<<<"c">>, <<"a","s","s","e","t","s">>, <<".","k","e","e","p">>>>, Blank),
    File(<<<<"c">>, <<"a","s","s","e","t","s">>, <<"f","-","g">>>>, Blank),
    File(<<<<"c">>, <<"a","s","s","e","t","s">>, <<"f","_","g">>>>, Blank),
    File(<<<<"c">>, <<"a","s","s","e","t","s">>, <<"d","\\","e">>>>, Blank),
    Dir(<<<<"c">>, <<"a","s","s","e","t","s">>, <<"d">>>>),
    File(<<<<"c">>, <<"a","s","s","e","t","s">>, <<"d">>, <<"e">>>>, Blank) }

\* One collection with entries that take their order from the front matter
\* (one of them the largest usize), from the numeric prefix of their id, or
\* from neither, next to directories that are not entries.
TreeEntries ==
  { Dir(<<<<"e">>>>),
    File(<<<<"e">>, <<"c","o","l","l","e","c","t","i","o","n",".","j","s","o","n">>>>,
         Metadata(Meta(<<"E">>, NoneOpt, Some(<<"/">>)), NoOverrides)),
    Dir(<<<<"e">>, <<".","h","i","d">>>>),
    File(<<<<"e">>, <<".","h","i","d">>, <<"i","n","d","e","x",".","m","d">>>>, Blank),
    Dir(<<<<"e">>, <<"n","o","m","d">>>>),
    Dir(<<<<"e">>, <<"b","a","d">>>>),
    File(<<<<"e">>, <<"b","a","d">>, <<"i","n","d","e","x",".","m","d">>>>, Unreadable),
    Dir(<<<<"e">>, <<"0","2","-","b">>>>),
    File(<<<<"e">>, <<"0","2","-","b">>, <<"i","n","d","e","x",".","m","d">>>>,
         Markdown([title |-> Some(<<"T">>), section |-> Some(<<"S">>), order |-> Some(1)],
                  <<NodeHeadingIntro, NodeImgTag>>)),
    Dir(<<<<"e">>, <<"1","-","a">>>>),
    File(<<<<"e">>, <<"1","-","a">>, <<"i","n","d","e","x",".","m","d">>>>, Markdown(DefaultFrontmatter, <<NodeHeadingIntro>>)),
    Dir(<<<<"e">>, <<"z","z">>>>),
    File(<<<<"e">>, <<"z","z">>, <<"i","n","d","e","x",".","m","d">>>>, Markdown(DefaultFrontmatter, <<NodeHeadingBlank, NodeSpace, NodeHeadingPadded>>)),
    Dir(<<<<"e">>, <<"z","z","z">>>>),
    File(<<<<"e">>, <<"z","z","z">>, <<"i","n","d","e","x",".","m","d">>>>,
         Markdown([DefaultFrontmatter EXCEPT !.order = Some(UsizeMax)], <<NodeHeadingBlank>>)) }

\* A collection whose metadata document overrides the entry markdown file
\* and the metadata file name for its subtree, with a nested collection
\* found under the overridden name; a directory whose metadata document has
\* no title; a directory without a metadata document.
TreeOverride ==
  { Dir(<<<<"o">>>>),
    File(<<<<"o">>, <<"c","o","l","l","e","c","t","i","o","n",".","j","s","o","n">>>>,
         Metadata(Meta(<<"O">>, NoneOpt, NoneOpt),
                  [NoOverrides EXCEPT !.entry_markdown_file = Some(<<"r","e","a","d","m","e",".","m","d">>),
                                      !.collection_metadata_file = Some(<<"m","e","t","a",".","j","s","o","n">>)])),
    Dir(<<<<"o">>, <<"1","-","e">>>>),
    File(<<<<"o">>, <<"1","-","e">>, <<"r","e","a","d","m","e",".","m","d">>>>, Markdown(DefaultFrontmatter, <<>>)),
    Dir(<<<<"o">>, <<"1","-","e">>, <<"p","r","o","d">>>>),
    File(<<<<"o">>, <<"1","-","e">>, <<"p","r","o","d">>, <<"r","e","a","d","m","e",".","m","d">>>>, Blank),
    Dir(<<<<"o">>, <<"1","-","e">>, <<"p","r","o","d">>, <<"a","s","s","e","t","s">>>>),
    File(<<<<"o">>, <<"1","-","e">>, <<"p","r","o","d">>, <<"a","s","s","e","t","s">>, <<"x",".","p","n","g">>>>, Blank),
    Dir(<<<<"o">>, <<"k">>>>),
    File(<<<<"o">>, <<"k">>, <<"m","e","t","a",".","j","s","o","n">>>>,
         Metadata(Meta(<<"K">>, NoneOpt, NoneOpt),
                  [NoOverrides EXCEPT !.entry_assets_dir = Some(<<"m","e","d","i","a">>)])),
    Dir(<<<<"n">>>>),
    File(<<<<"n">>, <<"c","o","l","l","e","c","t","i","o","n",".","j","s","o","n">>>>, Metadata(NoneOpt, NoOverrides)),
    Dir(<<<<"m">>>>) }

\* Directories that are walked without becoming collections, each with a
\* nested collection: n/ has a metadata document without title that renames
\* the metadata file for its subtree (n/c holds it under the new name, n/d
\* under the old one), m/ has no metadata file, j/ has one that is not JSON.
TreeInvalid ==
  { Dir(<<<<"n">>>>),
    File(<<<<"n">>, <<"c","o","l","l","e","c","t","i","o","n",".","j","s","o","n">>>>,
         Metadata(NoneOpt, [NoOverrides EXCEPT !.collection_metadata_file = Some(<<"m","e","t","a",".","j","s","o","n">>)])),
    Dir(<<<<"n">>, <<"1","-","e">>>>),
    File(<<<<"n">>, <<"1","-","e">>, <<"i","n","d","e","x",".","m","d">>>>, Markdown(DefaultFrontmatter, <<>>)),
    Dir(<<<<"n">>, <<"c">>>>),
    File(<<<<"n">>, <<"c">>, <<"m","e","t","a",".","j","s","o","n">>>>, Metadata(Meta(<<"N","C">>, NoneOpt, NoneOpt), NoOverrides)),
    Dir(<<<<"n">>, <<"d">>>>),
    File(<<<<"n">>, <<"d">>, <<"c","o","l","l","e","c","t","i","o","n",".","j","s","o","n">>>>, Metadata(Meta(<<"N","D">>, NoneOpt, NoneOpt), NoOverrides)),
    Dir(<<<<"m">>>>),
    Dir(<<<<"m">>, <<"c">>>>),
    File(<<<<"m">>, <<"c">>, <<"c","o","l","l","e","c","t","i","o","n",".","j","s","o","n">>>>, Metadata(Meta(<<"M","C">>, NoneOpt, NoneOpt), NoOverrides)),
    Dir(<<<<"j">>>>),
    File(<<<<"j">>, <<"c","o","l","l","e","c","t","i","o","n",".","j","s","o","n">>>>, Blank),
    Dir(<<<<"j">>, <<"c">>>>),
    File(<<<<"j">>, <<"c">>, <<"c","o","l","l","e","c","t","i","o","n",".","j","s","o","n">>>>, Metadata(Meta(<<"J","C">>, NoneOpt, NoneOpt), NoOverrides)) }

\* What the walk cannot read: a directory at the top and one inside an
\* assets directory that cannot be listed, an entry whose markdown file
\* cannot be read, beside an entry with a reference that resolves to
\* nothing, a file that is collected and a collection that is registered;
\* entries without front matter, with front matter that is not an entry
\* record, and with front matter Matter::parse fails on.
TreeUnreadable ==
  { UnreadableDir(<<<<"u">>>>),
    Dir(<<<<"u">>, <<"x">>>>),
    File(<<<<"u">>, <<"x">>, <<"c","o","l","l","e","c","t","i","o","n",".","j","s","o","n">>>>, Metadata(Meta(<<"X">>, NoneOpt, NoneOpt), NoOverrides)),
    Dir(<<<<"r">>>>),
    File(<<<<"r">>, <<"c","o","l","l","e","c","t","i","o","n",".","j","s","o","n">>>>, Metadata(Meta(<<"R">>, NoneOpt, NoneOpt), NoOverrides)),
    Dir(<<<<"r">>, <<"a","s","s","e","t","s">>>>),
    File(<<<<"r">>, <<"a","s","s","e","t","s">>, <<"o","k",".","p","n","g">>>>, Blank),
    UnreadableDir(<<<<"r">>, <<"a","s","s","e","t","s">>, <<"l","o","c","k","e","d">>>>),
    File(<<<<"r">>, <<"a","s","s","e","t","s">>, <<"l","o","c","k","e","d">>, <<"p","i","c",".","p","n","g">>>>, Blank),
    Dir(<<<<"r">>, <<"b","a","d">>>>),
    File(<<<<"r">>, <<"b","a","d">>, <<"i","n","d","e","x",".","m","d">>>>, Unreadable),
    Dir(<<<<"r">>, <<"1","-","a">>>>),
    File(<<<<"r">>, <<"1","-","a">>, <<"i","n","d","e","x",".","m","d">>>>, Markdown(DefaultFrontmatter, <<NodeImgTag>>)),
    Dir(<<<<"r">>, <<"2","-","n">>>>),
    File(<<<<"r">>, <<"2","-","n">>, <<"i","n","d","e","x",".","m","d">>>>, MarkdownWith("none", <<NodeHeadingIntro>>)),
    Dir(<<<<"r">>, <<"3","-","o">>>>),
    File(<<<<"r">>, <<"3","-","o">>, <<"i","n","d","e","x",".","m","d">>>>, MarkdownWith("other", <<>>)),
    Dir(<<<<"r">>, <<"4","-","x">>>>),
    File(<<<<"r">>, <<"4","-","x">>, <<"i","n","d","e","x",".","m","d">>>>, MarkdownWith("error", <<>>)) }

Trees == {TreeNested, TreeCollide, TreeEntries, TreeOverride, TreeInvalid, TreeUnreadable}

\* CollectionSelection::default()
Unfiltered == [include |-> NoneOpt, exclude |-> {}]

\* Beside the default: a collection kept without its nested collection,
\* and nested collections kept without their parents.
Selections ==
  { Unfiltered,
    [include |-> Some({<<"a">>}), exclude |-> {<<"a","/","s","u","b">>}],
    [include |-> Some({<<"a","/","s","u","b">>, <<"o","/","k">>}), exclude |-> {}] }

(***************************************************************************)
(* manifest/generation.rs: generate_offline_manifest, walk_collection_tree *)
(* and manifest/scanning.rs: collect_assets_recursively.  The recursion is *)
(* a stack of frames; every for loop over fs::read_dir takes the remaining *)
(* directory entries in any order, since read_dir promises none.           *)
(***************************************************************************)
Top == stack[Len(stack)]
Return == SubSeq(stack, 1, Len(stack) - 1)
ReplaceTop(frame) == [stack EXCEPT ![Len(stack)] = frame]
Call(frame, callee) == Append(ReplaceTop(frame), callee)
Advance(frame, entry) == [frame EXCEPT !.pending = @ \ {entry}]

GenerateFrame == [fn |-> "generate", pending |-> ReadDir(fs, <<>>)]

WalkFrame(parent_layout, collection_path, collection_id) ==
  [fn |-> "walk",
   phase |-> "load",
   parent_layout |-> parent_layout,
   collection_path |-> collection_path,
   collection_id |-> collection_id,
   collection_layout |-> parent_layout,
   meta |-> NoneOpt,
   pending |-> {},
   entry_records |-> <<>>]

CollectFrame(program_id, dir, relative_root, in_assets_tree, layout) ==
  [fn |-> "collect",
   program_id |-> program_id,
   dir |-> dir,
   relative_root |-> relative_root,
   in_assets_tree |-> in_assets_tree,
   layout |-> layout,
   pending |-> ReadDir(fs, dir)]

Running(fn) == pc = "walk" /\ stack # <<>> /\ Top.fn = fn

IsHidden(entry) == StartsWith(FileName(entry), <<".">>)

\* BTreeMap::insert
MapInsert(map, key, value) ==
  [k \in DOMAIN map \cup {key} |-> IF k = key THEN value ELSE map[k]]

\* The AssetEntry both the collector and the hero registration build.
NewAssetEntry(layout, collection_id, relative_path, used) ==
  [const_name |-> SanitizeConstName(collection_id, relative_path, used),
   literal_path |-> Join3(layout.collection_asset_literal_prefix, collection_id, relative_path),
   collection_id |-> collection_id,
   relative_path |-> relative_path]

accumulators == <<asset_map, used_names, hero_match_arms, hero_asset_paths,
                  collection_catalog, offline_entries>>

\* The accumulators of generate_offline_manifest are created empty.
GenerateStart ==
  /\ pc = "start"
  /\ pc' = "walk"
  /\ stack' = <<GenerateFrame>>
  /\ pass' = pass + 1
  /\ UNCHANGED <<call, builder, ret, fs, selection, previous>>
  /\ UNCHANGED accumulators

GenerateSkip ==
  /\ Running("generate")
  /\ \E entry \in Top.pending :
       /\ entry.kind # "dir" \/ IsHidden(entry)
       /\ stack' = ReplaceTop(Advance(Top, entry))
  /\ UNCHANGED <<pureVars, fs, selection, pass, previous>>
  /\ UNCHANGED accumulators

GenerateWalk ==
  /\ Running("generate")
  /\ \E entry \in Top.pending :
       /\ entry.kind = "dir" /\ ~IsHidden(entry)
       /\ stack' = Call(Advance(Top, entry), WalkFrame(Layout, entry.path, FileName(entry)))
  /\ UNCHANGED <<pureVars, fs, selection, pass, previous>>
  /\ UNCHANGED accumulators

\* Ok(ManifestGenerationResult { .. })
GenerateReturn ==
  /\ Running("generate")
  /\ Top.pending = {}
  /\ stack' = <<>>
  /\ pc' = "done"
  /\ UNCHANGED <<call, builder, ret, fs, selection, pass, previous>>
  /\ UNCHANGED accumulators

\* The metadata document of the collection: the layout with its overrides
\* applied and the metadata, when it deserializes.
LoadedLayout(frame) ==
  LET document == LoadDocument(fs, Append(frame.collection_path,
                                          frame.parent_layout.collection_metadata_file))
  IN IF IsSome(document)
     THEN ApplyToLayout(Unwrap(document).overrides, frame.parent_layout)
     ELSE frame.parent_layout

\* a document without the required title taken as metadata with an empty title
LoadedMetaOrDefault(frame) ==
  LET document == LoadDocument(fs, Append(frame.collection_path,
                                          frame.parent_layout.collection_metadata_file))
  IN IF ~IsSome(document) THEN NoneOpt
     ELSE IF IsSome(Unwrap(document).payload) THEN Unwrap(document).payload
     ELSE Meta(<<>>, NoneOpt, NoneOpt)

LoadedMeta(frame) ==
  LET document == LoadDocument(fs, Append(frame.collection_path,
                                          frame.parent_layout.collection_metadata_file))
  IN IF IsSome(document) THEN Unwrap(document).payload ELSE NoneOpt

\* if let Some(meta) = meta && selection.is_included(collection_id)
Qualifies(frame) == IsSome(LoadedMeta(frame)) /\ IsIncluded(selection, frame.collection_id)

WalkLoadQualified ==
  /\ Running("walk")
  /\ Top.phase = "load"
  /\ Qualifies(Top)
  /\ stack' = Call([Top EXCEPT !.collection_layout = LoadedLayout(Top),
                               !.meta = LoadedMeta(Top),
                               !.phase = "hero"],
                   CollectFrame(Top.collection_id, Top.collection_path, <<>>, FALSE,
                                LoadedLayout(Top)))
  /\ UNCHANGED <<pureVars, fs, selection, pass, previous>>
  /\ UNCHANGED accumulators

\* a directory that does not qualify is left without looking at its children
WalkLoadSkippedReturns ==
  /\ Running("walk")
  /\ Top.phase = "load"
  /\ ~Qualifies(Top)
  /\ stack' = Return
  /\ UNCHANGED <<pureVars, fs, selection, pass, previous>>
  /\ UNCHANGED accumulators

WalkLoadSkipped ==
  /\ Running("walk")
  /\ Top.phase = "load"
  /\ ~Qualifies(Top)
  /\ stack' = ReplaceTop([Top EXCEPT !.collection_layout = LoadedLayout(Top),
                                     !.meta = LoadedMeta(Top),
                                     !.phase = "children",
                                     !.pending = ReadDir(fs, Top.collection_path)])
  /\ UNCHANGED <<pureVars, fs, selection, pass, previous>>
  /\ UNCHANGED accumulators

(***************************************************************************)
(* collect_assets_recursively: one directory entry per step.               *)
(***************************************************************************)
NextRelative(frame, entry) ==
  IF frame.relative_root = <<>> THEN FileName(entry)
  ELSE Join2(frame.relative_root, FileName(entry))

\* next_relative.to_string_lossy().replace('\\', "/")
RelPathStr(frame, entry) == ReplaceChar(NextRelative(frame, entry), "\\", "/")

IsExcludedDir(frame, entry) ==
  entry.kind = "dir" /\ frame.in_assets_tree /\ FileName(entry) = frame.layout.excluded_dir_name

NextInAssetsNameOnly(frame, entry) == FileName(entry) = frame.layout.entry_assets_dir

\* let next_in_assets = in_assets_tree || name_str == module_assets_dir
NextInAssets(frame, entry) ==
  frame.in_assets_tree \/ FileName(entry) = frame.layout.entry_assets_dir

IsAnyFile(frame, entry) == entry.kind = "file"

IsCollectedFile(frame, entry) ==
  /\ entry.kind = "file"
  /\ \/ frame.in_assets_tree
     \/ FileName(entry) = frame.layout.entry_markdown_file
     \/ FileName(entry) = frame.layout.collection_metadata_file

NoExcludedFragment(frame, entry) == FALSE

HasExcludedFragment(frame, entry) ==
  StrContains(RelPathStr(frame, entry), frame.layout.excluded_path_fragment)

CollectSkipHidden ==
  /\ Running("collect")
  /\ \E entry \in Top.pending :
       /\ IsHidden(entry)
       /\ stack' = ReplaceTop(Advance(Top, entry))
  /\ UNCHANGED <<pureVars, fs, selection, pass, previous>>
  /\ UNCHANGED accumulators

CollectSkipExcludedDir ==
  /\ Running("collect")
  /\ \E entry \in Top.pending :
       /\ ~IsHidden(entry)
       /\ IsExcludedDir(Top, entry)
       /\ stack' = ReplaceTop(Advance(Top, entry))
  /\ UNCHANGED <<pureVars, fs, selection, pass, previous>>
  /\ UNCHANGED accumulators

CollectDescend ==
  /\ Running("collect")
  /\ \E entry \in Top.pending :
       /\ ~IsHidden(entry)
       /\ entry.kind = "dir"
       /\ ~IsExcludedDir(Top, entry)
       /\ stack' = Call(Advance(Top, entry),
                        CollectFrame(Top.program_id, entry.path, NextRelative(Top, entry),
                                     NextInAssets(Top, entry),
                                     Top.layout))
  /\ UNCHANGED <<pureVars, fs, selection, pass, previous>>
  /\ UNCHANGED accumulators

CollectIgnoreFile ==
  /\ Running("collect")
  /\ \E entry \in Top.pending :
       /\ ~IsHidden(entry)
       /\ entry.kind = "file"
       /\ ~IsCollectedFile(Top, entry)
       /\ stack' = ReplaceTop(Advance(Top, entry))
  /\ UNCHANGED <<pureVars, fs, selection, pass, previous>>
  /\ UNCHANGED accumulators

CollectSkipFragment ==
  /\ Running("collect")
  /\ \E entry \in Top.pending :
       /\ ~IsHidden(entry)
       /\ IsCollectedFile(Top, entry)
       /\ HasExcludedFragment(Top, entry)
       /\ stack' = ReplaceTop(Advance(Top, entry))
  /\ UNCHANGED <<pureVars, fs, selection, pass, previous>>
  /\ UNCHANGED accumulators

CollectSkipExisting ==
  /\ Running("collect")
  /\ \E entry \in Top.pending :
       /\ ~IsHidden(entry)
       /\ IsCollectedFile(Top, entry)
       /\ ~HasExcludedFragment(Top, entry)
       /\ <<Top.program_id, RelPathStr(Top, entry)>> \in DOMAIN asset_map
       /\ stack' = ReplaceTop(Advance(Top, entry))
  /\ UNCHANGED <<pureVars, fs, selection, pass, previous>>
  /\ UNCHANGED accumulators

\* The scan is at a file that is eligible and whose key is free.
CollectInsertReady ==
  /\ Running("collect")
  /\ \E entry \in Top.pending :
       /\ ~IsHidden(entry)
       /\ IsCollectedFile(Top, entry)
       /\ ~HasExcludedFragment(Top, entry)
       /\ <<Top.program_id, RelPathStr(Top, entry)>> \notin DOMAIN asset_map

CollectInsert ==
  /\ CollectInsertReady
  /\ \E entry \in Top.pending :
       LET key == <<Top.program_id, RelPathStr(Top, entry)>>
           asset == NewAssetEntry(Top.layout, Top.program_id, RelPathStr(Top, entry),
                                  used_names)
       IN /\ ~IsHidden(entry)
          /\ IsCollectedFile(Top, entry)
          /\ ~HasExcludedFragment(Top, entry)
          /\ key \notin DOMAIN asset_map
          /\ used_names' = used_names \cup {asset.const_name}
          /\ asset_map' = MapInsert(asset_map, key, asset)
          /\ stack' = ReplaceTop(Advance(Top, entry))
  /\ UNCHANGED <<pureVars, fs, selection, pass, previous>>
  /\ UNCHANGED <<hero_match_arms, hero_asset_paths, collection_catalog, offline_entries>>

CollectReturn ==
  /\ Running("collect")
  /\ Top.pending = {}
  /\ stack' = Return
  /\ UNCHANGED <<pureVars, fs, selection, pass, previous>>
  /\ UNCHANGED accumulators

(***************************************************************************)
(* walk_collection_tree: hero image registration.                          *)
(***************************************************************************)
\* hero_image.trim_start_matches('/').replace('\\', "/")
\* the hero reference taken as written
HeroRelAsWritten(hero_image) == hero_image

HeroRel(hero_image) == ReplaceChar(TrimStartMatches(hero_image, "/"), "\\", "/")

HasHero(frame) ==
  /\ IsSome(Unwrap(frame.meta).hero_image)
  /\ HeroRel(Unwrap(Unwrap(frame.meta).hero_image)) # <<>>

HeroInsertAlways(layout, map, used, collection_id, hero_rel) ==
  LET asset == NewAssetEntry(layout, collection_id, hero_rel, used)
  IN [asset_map |-> MapInsert(map, <<collection_id, hero_rel>>, asset),
      used_names |-> used \cup {asset.const_name}]

\* asset_map.entry(key).or_insert_with(|| { .. used_names.insert(..) .. })
HeroEntryOrInsertWith(layout, map, used, collection_id, hero_rel) ==
  IF <<collection_id, hero_rel>> \in DOMAIN map
  THEN [asset_map |-> map, used_names |-> used]
  ELSE LET asset == NewAssetEntry(layout, collection_id, hero_rel, used)
       IN [asset_map |-> MapInsert(map, <<collection_id, hero_rel>>, asset),
           used_names |-> used \cup {asset.const_name}]

HeroSkip ==
  /\ Running("walk")
  /\ Top.phase = "hero"
  /\ ~HasHero(Top)
  /\ stack' = ReplaceTop([Top EXCEPT !.phase = "entries",
                                     !.pending = ReadDir(fs, Top.collection_path)])
  /\ UNCHANGED <<pureVars, fs, selection, pass, previous>>
  /\ UNCHANGED accumulators

\* The walk is at the hero block of a collection that names a hero image.
HeroRegisterReady ==
  /\ Running("walk")
  /\ Top.phase = "hero"
  /\ HasHero(Top)

HeroRegister ==
  /\ HeroRegisterReady
  /\ LET hero_rel == HeroRel(Unwrap(Unwrap(Top.meta).hero_image))
         after == HeroEntryOrInsertWith(Top.collection_layout, asset_map, used_names,
                                        Top.collection_id, hero_rel)
         entry == after.asset_map[<<Top.collection_id, hero_rel>>]
     IN /\ asset_map' = after.asset_map
        /\ used_names' = after.used_names
        /\ hero_match_arms' = Append(hero_match_arms,
                                     HeroMatchArm(Top.collection_id, entry.const_name))
        /\ hero_asset_paths' = hero_asset_paths \cup
             {MakeOfflineAssetPath(Top.collection_layout, entry.collection_id,
                                   entry.relative_path)}
  /\ stack' = ReplaceTop([Top EXCEPT !.phase = "entries",
                                     !.pending = ReadDir(fs, Top.collection_path)])
  /\ UNCHANGED <<pureVars, fs, selection, pass, previous>>
  /\ UNCHANGED <<collection_catalog, offline_entries>>

(***************************************************************************)
(* walk_collection_tree: the entries of the collection.                    *)
(***************************************************************************)
MarkdownPath(frame, entry) == Append(entry.path, frame.collection_layout.entry_markdown_file)

IsEntryDir(frame, entry) ==
  /\ entry.kind = "dir"
  /\ ~IsHidden(entry)
  /\ FileName(entry) # frame.collection_layout.entry_assets_dir
  /\ Exists(fs, MarkdownPath(frame, entry))

\* the first heading taken before the front matter title
EntryTitleHeadingFirst(frontmatter, body, entry_id) ==
  IF IsSome(ExtractFirstHeading(body)) THEN Unwrap(ExtractFirstHeading(body))
  ELSE IF IsSome(frontmatter.title) THEN Unwrap(frontmatter.title)
  ELSE entry_id

\* frontmatter.title.or_else(|| extract_first_heading(&body)).unwrap_or_else(|| entry_id)
EntryTitle(frontmatter, body, entry_id) ==
  IF IsSome(frontmatter.title) THEN Unwrap(frontmatter.title)
  ELSE IF IsSome(ExtractFirstHeading(body)) THEN Unwrap(ExtractFirstHeading(body))
  ELSE entry_id

\* frontmatter.order.or_else(|| parse_order_from_id(&entry_id)).unwrap_or(usize::MAX)
EntryOrder(frontmatter, entry_id) ==
  IF IsSome(frontmatter.order) THEN Unwrap(frontmatter.order)
  ELSE IF IsSome(ParseOrderFromId(entry_id)) THEN Unwrap(ParseOrderFromId(entry_id))
  ELSE UsizeMax

EntrySkip ==
  /\ Running("walk")
  /\ Top.phase = "entries"
  /\ \E entry \in Top.pending :
       /\ ~IsEntryDir(Top, entry)
       /\ stack' = ReplaceTop(Advance(Top, entry))
  /\ UNCHANGED <<pureVars, fs, selection, pass, previous>>
  /\ UNCHANGED accumulators

\* an entry that cannot be parsed ends the whole walk
EntryUnparsedAborts ==
  /\ Running("walk")
  /\ Top.phase = "entries"
  /\ \E entry \in Top.pending :
       /\ IsEntryDir(Top, entry)
       /\ ~IsSome(ParseEntryMarkdown(fs, MarkdownPath(Top, entry)))
  /\ stack' = <<>>
  /\ pc' = "done"
  /\ UNCHANGED <<call, builder, ret, fs, selection, pass, previous>>
  /\ UNCHANGED accumulators

\* an entry that cannot be parsed still gets an offline record
EntryUnparsedRecorded ==
  /\ Running("walk")
  /\ Top.phase = "entries"
  /\ \E entry \in Top.pending :
       /\ IsEntryDir(Top, entry)
       /\ ~IsSome(ParseEntryMarkdown(fs, MarkdownPath(Top, entry)))
       /\ offline_entries' =
            Append(offline_entries,
                   [collection_id |-> Top.collection_id,
                    entry_id |-> FileName(entry),
                    body |-> <<>>,
                    asset_paths |-> <<>>])
       /\ stack' = ReplaceTop(Advance(Top, entry))
  /\ UNCHANGED <<pureVars, fs, selection, pass, previous>>
  /\ UNCHANGED <<asset_map, used_names, hero_match_arms, hero_asset_paths,
                 collection_catalog>>

EntryUnparsed ==
  /\ Running("walk")
  /\ Top.phase = "entries"
  /\ \E entry \in Top.pending :
       /\ IsEntryDir(Top, entry)
       /\ ~IsSome(ParseEntryMarkdown(fs, MarkdownPath(Top, entry)))
       /\ stack' = ReplaceTop(Advance(Top, entry))
  /\ UNCHANGED <<pureVars, fs, selection, pass, previous>>
  /\ UNCHANGED accumulators

\* The entry loop is at an entry directory whose markdown file parses.
EntryProcessReady ==
  /\ Running("walk")
  /\ Top.phase = "entries"
  /\ \E entry \in Top.pending :
       /\ IsEntryDir(Top, entry)
       /\ IsSome(ParseEntryMarkdown(fs, MarkdownPath(Top, entry)))

EntryProcess ==
  /\ EntryProcessReady
  /\ \E entry \in Top.pending :
       /\ IsEntryDir(Top, entry)
       /\ IsSome(ParseEntryMarkdown(fs, MarkdownPath(Top, entry)))
       /\ LET parsed == Unwrap(ParseEntryMarkdown(fs, MarkdownPath(Top, entry)))
              entry_id == FileName(entry)
              order == EntryOrder(parsed.frontmatter, entry_id)
              references == CollectMarkdownAssetReferences(parsed.body)
              resolution == ResolveMarkdownAssets(Top.collection_layout, references,
                                                  asset_map, Top.collection_id, entry_id,
                                                  Unwrap(Top.meta).asset_slug)
              record == [id |-> entry_id,
                         title |-> EntryTitle(parsed.frontmatter, parsed.body, entry_id),
                         section |-> parsed.frontmatter.section,
                         sequence |-> order,
                         source |-> Join3(Top.collection_id, entry_id,
                                          Top.collection_layout.entry_markdown_file)]
          IN /\ offline_entries' =
                  Append(offline_entries,
                         [collection_id |-> Top.collection_id,
                          entry_id |-> entry_id,
                          body |-> parsed.body,
                          asset_paths |-> resolution.resolved])
             /\ stack' = ReplaceTop(
                  [Advance(Top, entry) EXCEPT
                     !.entry_records = Append(@, [order |-> order, entry |-> record])])
  /\ UNCHANGED <<pureVars, fs, selection, pass, previous>>
  /\ UNCHANGED <<asset_map, used_names, hero_match_arms, hero_asset_paths,
                 collection_catalog>>

\* order_a.cmp(order_b).then_with(|| entry_a.id.cmp(&entry_b.id)) is Less
RecordLess(a, b) ==
  a.order < b.order \/ (a.order = b.order /\ StrLess(a.entry.id, b.entry.id))

\* Vec::sort_by: stable, so among equal records the earliest stays first.
RECURSIVE SortBy(_)
SortBy(records) ==
  IF records = <<>> THEN <<>>
  ELSE LET least == {i \in 1..Len(records) :
                       \A j \in 1..Len(records) : ~RecordLess(records[j], records[i])}
           first == Min(least)
       IN <<records[first]>> \o
          SortBy(SubSeq(records, 1, first - 1) \o SubSeq(records, first + 1, Len(records)))

KeepOrderAsSequence(records) == [index \in 1..Len(records) |-> records[index].entry]

\* enumerate().map(|(index, (_, entry))| { entry.sequence = index + 1; entry })
Resequence(records) ==
  [index \in 1..Len(records) |-> [records[index].entry EXCEPT !.sequence = index]]

\* The entry loop has taken every directory entry.
CatalogPushReady ==
  /\ Running("walk")
  /\ Top.phase = "entries"
  /\ Top.pending = {}

CatalogPush ==
  /\ CatalogPushReady
  /\ collection_catalog' =
       Append(collection_catalog,
              [id |-> Top.collection_id,
               meta |-> Unwrap(Top.meta),
               entries |-> Resequence(SortBy(Top.entry_records))])
  /\ stack' = ReplaceTop([Top EXCEPT !.phase = "children",
                                     !.pending = ReadDir(fs, Top.collection_path)])
  /\ UNCHANGED <<pureVars, fs, selection, pass, previous>>
  /\ UNCHANGED <<asset_map, used_names, hero_match_arms, hero_asset_paths, offline_entries>>

(***************************************************************************)
(* walk_collection_tree: the nested collections.                           *)
(***************************************************************************)
IsChildCollection(frame, child) ==
  /\ child.kind = "dir"
  /\ ~IsHidden(child)
  /\ Exists(fs, Append(child.path, frame.collection_layout.collection_metadata_file))

ChildId(collection_id, name) ==
  IF collection_id = <<>> THEN name ELSE Join2(collection_id, name)

ChildSkip ==
  /\ Running("walk")
  /\ Top.phase = "children"
  /\ \E child \in Top.pending :
       /\ ~IsChildCollection(Top, child)
       /\ stack' = ReplaceTop(Advance(Top, child))
  /\ UNCHANGED <<pureVars, fs, selection, pass, previous>>
  /\ UNCHANGED accumulators

ChildWalk ==
  /\ Running("walk")
  /\ Top.phase = "children"
  /\ \E child \in Top.pending :
       /\ IsChildCollection(Top, child)
       /\ stack' = Call(Advance(Top, child),
                        WalkFrame(Top.collection_layout, child.path,
                                  ChildId(Top.collection_id, FileName(child))))
  /\ UNCHANGED <<pureVars, fs, selection, pass, previous>>
  /\ UNCHANGED accumulators

WalkReturn ==
  /\ Running("walk")
  /\ Top.phase = "children"
  /\ Top.pending = {}
  /\ stack' = Return
  /\ UNCHANGED <<pureVars, fs, selection, pass, previous>>
  /\ UNCHANGED accumulators

(***************************************************************************)
(* Specification of one run of generate_offline_manifest, and of two runs  *)
(* over the same tree.                                                     *)
(***************************************************************************)
\* ManifestGenerationResult
Result ==
  [collection_catalog |-> collection_catalog,
   offline_entries |-> offline_entries,
   asset_map |-> asset_map,
   hero_asset_paths |-> hero_asset_paths,
   hero_match_arms |-> hero_match_arms]

Init ==
  /\ pc = "start"
  /\ call = <<>>
  /\ builder = <<>>
  /\ ret = {}
  /\ fs \in Trees
  /\ selection \in Selections
  /\ stack = <<>>
  /\ asset_map = <<>>
  /\ used_names = {}
  /\ hero_match_arms = <<>>
  /\ hero_asset_paths = {}
  /\ collection_catalog = <<>>
  /\ offline_entries = <<>>
  /\ pass = 0
  /\ previous = NoneOpt

Next ==
  \/ GenerateStart
  \/ GenerateSkip
  \/ GenerateWalk
  \/ GenerateReturn
  \/ WalkLoadQualified
  \/ WalkLoadSkipped
  \/ CollectSkipHidden
  \/ CollectSkipExcludedDir
  \/ CollectDescend
  \/ CollectIgnoreFile
  \/ CollectSkipFragment
  \/ CollectSkipExisting
  \/ CollectInsert
  \/ CollectReturn
  \/ HeroSkip
  \/ HeroRegister
  \/ EntrySkip
  \/ EntryUnparsed
  \/ EntryProcess
  \/ CatalogPush
  \/ ChildSkip
  \/ ChildWalk
  \/ WalkReturn

Spec == Init /\ [][Next]_vars

\* The caller runs generate_offline_manifest again over the unchanged tree,
\* keeping the first result for comparison.
Rerun ==
  /\ pc = "done"
  /\ pass = 1
  /\ previous' = Some(Result)
  /\ pc' = "start"
  /\ asset_map' = <<>>
  /\ used_names' = {}
  /\ hero_match_arms' = <<>>
  /\ hero_asset_paths' = {}
  /\ collection_catalog' = <<>>
  /\ offline_entries' = <<>>
  /\ UNCHANGED <<call, builder, ret, fs, selection, stack, pass>>

NextRerun == Next \/ Rerun

SpecRerun == Init /\ [][NextRerun]_vars

(***************************************************************************)
(* Claims about the walk.                                                  *)
(***************************************************************************)
Str_c_assets_d_e == <<"a","s","s","e","t","s","/","d","/","e">>
Str_C_ASSETS_D_E == <<"C","_","A","S","S","E","T","S","_","D","_","E">>

\* C1: two runs of generate_offline_manifest over the same unchanged tree
\* produce identical results (catalog order, offline entry order, asset map
\* with its generated identifiers, hero paths and hero fragments), whatever
\* order the file system enumerates the children of each directory in.
C1_RerunIdentical ==
  (pc = "done" /\ pass = 2) => Result = Unwrap(previous)

\* Two finished runs over the tree with colliding identifiers whose asset
\* maps differ.
C1_Witness ==
  /\ pc = "done"
  /\ pass = 2
  /\ fs = TreeCollide
  /\ DOMAIN asset_map = DOMAIN Unwrap(previous).asset_map
  /\ asset_map # Unwrap(previous).asset_map
  /\ collection_catalog = Unwrap(previous).collection_catalog

\* C10: asset map insertion is insert-if-absent: no step of the walk (a
\* later file discovery by the collector, the hero image registration)
\* replaces or modifies an entry that exists under its key, and a step adds
\* exactly one identifier to the used names per key it adds to the map, so
\* none for a key that was present.
C10_InsertIfAbsent ==
  [][/\ \A key \in DOMAIN asset_map :
          key \in DOMAIN asset_map' /\ asset_map'[key] = asset_map[key]
     /\ used_names \subseteq used_names'
     /\ Cardinality(used_names') =
          Cardinality(used_names) + Cardinality(DOMAIN asset_map' \ DOMAIN asset_map)]_vars

\* The walk of the tree in which a file and a directory entry normalise to
\* the same relative path, which the hero image names too, has finished:
\* the path was met three times and is in the map once, under the identifier
\* of its first discovery.
C10_Witness ==
  /\ pc = "done"
  /\ fs = TreeCollide
  /\ selection = Unfiltered
  /\ <<Str_c, Str_c_assets_d_e>> \in DOMAIN asset_map
  /\ asset_map[<<Str_c, Str_c_assets_d_e>>].const_name = Str_C_ASSETS_D_E
  /\ hero_match_arms = <<HeroMatchArm(Str_c, Str_C_ASSETS_D_E)>>
  /\ Cardinality(DOMAIN asset_map) = 4
  /\ Cardinality(used_names) = 4

(***************************************************************************)
(* Specification of sanitize_const_name: the scope, the paths and the used *)
(* names are drawn by the initial state; the caller sanitizes one path,    *)
(* inserts the result into the used names and sanitizes a second path.     *)
(***************************************************************************)
MaxPathLen == 2

SanitizeAlphabet == {"a", "1", "-", "_", ".", "U+0138", "U+0663"}
SanitizeScopes == {<<"p">>, <<"1">>, <<"U+0663">>, <<>>}
SanitizePaths == StringsUpTo(SanitizeAlphabet, MaxPathLen)
SanitizeUsedPool == {<<"P","_","A">>, <<"P","_","A","_","1">>, <<"_","1","_","A">>}

InitSanitize ==
  /\ pc = "start"
  /\ \E program_id \in SanitizeScopes, relative_path \in SanitizePaths,
        second_path \in {<<"a">>, <<"-","a">>, <<"a","-","-","1">>},
        used \in SUBSET SanitizeUsedPool :
       /\ call = [program_id |-> program_id, relative_path |-> relative_path,
                  second_path |-> second_path, used |-> used]
       /\ used_names = used
  /\ builder = <<>>
  /\ ret = <<>>
  /\ fs = {}
  /\ selection = {}
  /\ stack = <<>>
  /\ asset_map = <<>>
  /\ hero_match_arms = <<>>
  /\ hero_asset_paths = {}
  /\ collection_catalog = <<>>
  /\ offline_entries = <<>>
  /\ pass = 0
  /\ previous = <<>>

\* let name = sanitize_const_name(scope, path, &used); used.insert(name.clone());
SanitizeAndInsert ==
  /\ pc = "start"
  /\ LET name == SanitizeConstName(call.program_id, call.relative_path, used_names)
     IN /\ ret' = <<name>>
        /\ used_names' = used_names \cup {name}
  /\ pc' = "inserted"
  /\ UNCHANGED <<call, builder, fs, selection, stack, asset_map, hero_match_arms,
                 hero_asset_paths, collection_catalog, offline_entries, pass, previous>>

\* let name_two = sanitize_const_name(scope, second_path, &used);
SanitizeAgain ==
  /\ pc = "inserted"
  /\ ret' = Append(ret, SanitizeConstName(call.program_id, call.second_path, used_names))
  /\ pc' = "done"
  /\ UNCHANGED <<call, builder, fs, selection, stack, asset_map, used_names,
                 hero_match_arms, hero_asset_paths, collection_catalog, offline_entries,
                 pass, previous>>

NextSanitize == SanitizeAndInsert \/ SanitizeAgain

SpecSanitize == InitSanitize /\ [][NextSanitize]_vars

(***************************************************************************)
(* Claims about sanitize_const_name.                                       *)
(***************************************************************************)
\* An uppercase letter or a digit, '_' aside: what an uppercase identifier
\* is made of.
IsUppercaseAlphanumeric(c) == IsUpper(c) \/ IsAsciiDigit(c) \/ c = "U+00C9"

\* A decimal digit, ASCII or not.
IsDigit(c) == IsAsciiDigit(c) \/ c = "U+0663"

\* The base as the claim describes it: scope, '_' and path, uppercased, each
\* character that is not alphanumeric replaced by '_', each run of '_' kept
\* as a single '_', and '_' put in front of a leading ASCII digit.
ClaimedBase(scope, path) ==
  LET joined == ToUppercase(scope \o <<"_">> \o path)
      mapped == [i \in 1..Len(joined) |->
                   IF IsAlphanumeric(joined[i]) THEN joined[i] ELSE "_"]
      kept == {i \in 1..Len(mapped) : ~(mapped[i] = "_" /\ i > 1 /\ mapped[i - 1] = "_")}
      single == [n \in 1..Cardinality(kept) |->
                   mapped[CHOOSE i \in kept : Cardinality({j \in kept : j <= i}) = n]]
  IN IF IsAsciiDigit(single[1]) THEN <<"_">> \o single ELSE single

\* base_k
Suffixed(base, k) == base \o <<"_">> \o ToDecimal(k)

\* The identifier the claim describes for a base and a set of used names.
ClaimedName(base, used) ==
  IF base \notin used THEN base
  ELSE Suffixed(base, Min({k \in 1..(Cardinality(used) + 1) : Suffixed(base, k) \notin used}))

\* C11: sanitize_const_name returns an identifier that is not in used, is
\* not empty, is made only of uppercase alphanumeric characters and '_' and
\* does not start with a digit; it is the base when the base is unused and
\* otherwise base_k for the smallest k >= 1 with base_k unused; two
\* successive calls with colliding bases, the first result inserted into
\* used, return distinct identifiers, and starting from no used names the
\* second is base_1.
C11_SanitizedIdentifier ==
  pc \in {"inserted", "done"} =>
    LET name == ret[1]
        base == ClaimedBase(call.program_id, call.relative_path)
    IN /\ name \notin call.used
       /\ name # <<>>
       /\ \A i \in 1..Len(name) : name[i] = "_" \/ IsUppercaseAlphanumeric(name[i])
       /\ ~IsDigit(name[1])
       /\ name = ClaimedName(base, call.used)
       /\ (pc = "done" /\ ClaimedBase(call.program_id, call.second_path) = base) =>
            /\ ret[2] # name
            /\ call.used = {} => ret[2] = Suffixed(base, 1)

(***************************************************************************)
(* Claims about the asset collector (under Spec).                          *)
(***************************************************************************)
\* The directories walk_collection_tree is called on at or below a path,
\* each with the layout and the metadata it loads there.
RECURSIVE WalkedBelow(_, _, _)
WalkedBelow(parent_layout, path, id) ==
  LET called == WalkFrame(parent_layout, path, id)
      frame == [called EXCEPT !.collection_layout = LoadedLayout(called),
                              !.meta = LoadedMeta(called)]
  IN {frame} \cup
     UNION {WalkedBelow(frame.collection_layout, child.path, ChildId(id, FileName(child))) :
              child \in {c \in ReadDir(fs, path) : IsChildCollection(frame, c)}}

Walked ==
  UNION {WalkedBelow(Layout, entry.path, FileName(entry)) :
           entry \in {e \in ReadDir(fs, <<>>) : e.kind = "dir" /\ ~IsHidden(e)}}

\* The walked directories that are registered as collections.
Registered == {c \in Walked : Qualifies(c)}

IsUnder(root, node) ==
  Len(node.path) > Len(root) /\ SubSeq(node.path, 1, Len(root)) = root

\* The names from the collection root down to the node.
Components(root, node) == SubSeq(node.path, Len(root) + 1, Len(node.path))

RECURSIVE JoinPath(_)
JoinPath(names) ==
  IF Len(names) = 1 THEN names[1]
  ELSE JoinPath(SubSeq(names, 1, Len(names) - 1)) \o Slash \o names[Len(names)]

\* The forward-slash relative path of a node below a collection root.
ForwardSlashPath(root, node) == ReplaceChar(JoinPath(Components(root, node)), "\\", "/")

\* The files below a directory that listing the directories on the way
\* reaches: none of those directories fails to be read.
FilesUnder(root) ==
  {node \in fs :
     /\ node.kind = "file"
     /\ IsUnder(root, node)
     /\ \A k \in Len(root)..(Len(node.path) - 1) :
          \A dir \in fs : dir.path = SubSeq(node.path, 1, k) => dir.content.readable}

\* Some name on the way to the node, or its own, begins with '.'.
HasHiddenComponent(root, node) ==
  \E i \in 1..Len(Components(root, node)) : StartsWith(Components(root, node)[i], <<".">>)

\* The directories above the node, within the collection, that are named
\* the assets directory name.
AssetsAncestors(c, node) ==
  {i \in 1..(Len(Components(c.collection_path, node)) - 1) :
     Components(c.collection_path, node)[i] = c.collection_layout.entry_assets_dir}

IsEligible(c, node) ==
  \/ AssetsAncestors(c, node) # {}
  \/ FileName(node) = c.collection_layout.entry_markdown_file
  \/ FileName(node) = c.collection_layout.collection_metadata_file

\* The node lies in a directory named the excluded directory name below an
\* assets directory.
InExcludedDir(c, node) ==
  \E i \in AssetsAncestors(c, node) :
    \E j \in (i + 1)..(Len(Components(c.collection_path, node)) - 1) :
      Components(c.collection_path, node)[j] = c.collection_layout.excluded_dir_name

HasFragment(c, node) ==
  StrContains(ForwardSlashPath(c.collection_path, node),
              c.collection_layout.excluded_path_fragment)

\* The key the hero image of a collection is registered under.
IsHeroKey(c, key) ==
  /\ HasHero(c)
  /\ key = <<c.collection_id, HeroRel(Unwrap(Unwrap(c.meta).hero_image))>>

\* C12: a file is in the asset map only if it lies inside an assets
\* subtree of its collection or is named as the entry markdown file or the
\* collection metadata file, and nothing whose name, or the name of a
\* directory above it, begins with '.' is collected; when the walk is done
\* every eligible file under a registered collection that is not excluded
\* is in the map.
C12_EligibleFilesCollected ==
  /\ \A key \in DOMAIN asset_map :
       \E c \in Registered :
         /\ c.collection_id = key[1]
         /\ \/ IsHeroKey(c, key)
            \/ \E node \in FilesUnder(c.collection_path) :
                 /\ ForwardSlashPath(c.collection_path, node) = key[2]
                 /\ IsEligible(c, node)
                 /\ ~HasHiddenComponent(c.collection_path, node)
  /\ pc = "done" =>
       \A c \in Registered :
         \A node \in FilesUnder(c.collection_path) :
           (/\ IsEligible(c, node)
            /\ ~HasHiddenComponent(c.collection_path, node)
            /\ ~InExcludedDir(c, node)
            /\ ~HasFragment(c, node))
             => <<c.collection_id, ForwardSlashPath(c.collection_path, node)>>
                  \in DOMAIN asset_map

\* The walk of the tree with a hidden file inside the assets directory and
\* a file outside it that is neither the markdown nor the metadata file has
\* finished: the map holds the metadata file and the three asset paths.
C12_Witness ==
  /\ pc = "done"
  /\ fs = TreeCollide
  /\ DOMAIN asset_map =
       {<<Str_c, <<"c","o","l","l","e","c","t","i","o","n",".","j","s","o","n">>>>, <<Str_c, <<"a","s","s","e","t","s","/","f","-","g">>>>,
        <<Str_c, <<"a","s","s","e","t","s","/","f","_","g">>>>, <<Str_c, Str_c_assets_d_e>>}

\* The root of the collection a collector frame scans: the path of the
\* nearest walk frame below it on the stack.
CollectRoot(i) ==
  stack[Max({j \in 1..i : stack[j].fn = "walk"})].collection_path

\* The names from the collection root down to the directory of a frame.
FrameComponents(i) ==
  SubSeq(stack[i].dir, Len(CollectRoot(i)) + 1, Len(stack[i].dir))

CollectFrames == {i \in 1..Len(stack) : stack[i].fn = "collect"}

\* C13: the flag of a collector call is true exactly when the directory it
\* scans is named the assets directory name or lies below such a directory
\* within the collection, so it stays true for all descendants; no
\* directory named the excluded directory name is scanned below an assets
\* directory and no file below one is collected, while a directory of that
\* name that is not under an assets directory is scanned like any other.
C13_AssetsFlagAndExcludedDir ==
  /\ \A i \in CollectFrames :
       /\ stack[i].in_assets_tree <=>
            \E n \in 1..Len(FrameComponents(i)) :
              FrameComponents(i)[n] = stack[i].layout.entry_assets_dir
       /\ ~\E n \in 1..Len(FrameComponents(i)) :
             \E k \in (n + 1)..Len(FrameComponents(i)) :
               /\ FrameComponents(i)[n] = stack[i].layout.entry_assets_dir
               /\ FrameComponents(i)[k] = stack[i].layout.excluded_dir_name
  /\ \A key \in DOMAIN asset_map :
       \E c \in Registered :
         /\ c.collection_id = key[1]
         /\ \/ IsHeroKey(c, key)
            \/ \E node \in FilesUnder(c.collection_path) :
                 /\ ForwardSlashPath(c.collection_path, node) = key[2]
                 /\ ~InExcludedDir(c, node)
  /\ pc = "done" =>
       \A c \in Registered :
         \A node \in FilesUnder(c.collection_path) :
           (/\ c.collection_layout.excluded_dir_name
                 \in Range(Components(c.collection_path, node))
            /\ IsEligible(c, node)
            /\ ~HasHiddenComponent(c.collection_path, node)
            /\ ~InExcludedDir(c, node)
            /\ ~HasFragment(c, node))
             => <<c.collection_id, ForwardSlashPath(c.collection_path, node)>>
                  \in DOMAIN asset_map

\* The collector has scanned a directory below an assets directory with
\* the flag set and has passed over the directory named prod in it, in a
\* walk that has collected the markdown file of the top-level directory
\* named prod.
C13_Witness ==
  /\ fs = TreeNested
  /\ pc = "walk"
  /\ stack # <<>>
  /\ Top.fn = "collect"
  /\ Top.dir = <<<<"a">>, <<"a","s","s","e","t","s">>, <<"i">>>>
  /\ Top.in_assets_tree
  /\ Top.pending = {}
  /\ <<<<"a">>, <<"p","r","o","d","/","i","n","d","e","x",".","m","d">>>> \in DOMAIN asset_map
  /\ \A key \in DOMAIN asset_map : ~StartsWith(key[2], <<"a","s","s","e","t","s","/","i">>)

\* C14: the collector never inserts a file whose forward-slash relative
\* path contains the excluded path fragment of the collection's layout,
\* whether the file is inside an assets subtree or named as the markdown or
\* metadata file; the keys left in the map with the fragment are those of
\* hero images.
C14_ExcludedFragmentNeverCollected ==
  \A key \in DOMAIN asset_map :
    \E c \in Registered :
      /\ c.collection_id = key[1]
      /\ \/ IsHeroKey(c, key)
         \/ ~StrContains(key[2], c.collection_layout.excluded_path_fragment)

\* The walk of the tree that has a markdown file and a file in an assets
\* directory, both with /prod/ in their relative paths, has finished: the
\* entry's own markdown file is in the map, those two are not.
C14_Witness ==
  /\ pc = "done"
  /\ fs = TreeOverride
  /\ selection = Unfiltered
  /\ <<<<"o">>, <<"1","-","e","/","r","e","a","d","m","e",".","m","d">>>> \in DOMAIN asset_map
  /\ <<<<"o">>, <<"1","-","e","/","p","r","o","d","/","r","e","a","d","m","e",".","m","d">>>> \notin DOMAIN asset_map
  /\ <<<<"o">>, <<"1","-","e","/","p","r","o","d","/","a","s","s","e","t","s","/","x",".","p","n","g">>>> \notin DOMAIN asset_map

(***************************************************************************)
(* Claims about the catalog (under Spec).                                  *)
(***************************************************************************)
\* The registered collection a catalog record was pushed for.
CollectionOf(id) == CHOOSE c \in Registered : c.collection_id = id

\* The front matter and body of an entry of a collection.
EntryDocument(c, entry_id) ==
  Unwrap(ParseEntryMarkdown(
           fs, c.collection_path \o <<entry_id, c.collection_layout.entry_markdown_file>>))

\* The order resolved for an entry of a collection.
ResolvedOrder(c, entry_id) == EntryOrder(EntryDocument(c, entry_id).frontmatter, entry_id)

\* C15: in every catalog record the entries are sorted ascending by
\* (resolved order, then entry id) and the entry at position i (from 1) has
\* sequence i, whatever the explicit or derived orders are.
C15_EntriesSortedAndDense ==
  \A n \in 1..Len(collection_catalog) :
    LET record == collection_catalog[n]
        c == CollectionOf(record.id)
        order(i) == ResolvedOrder(c, record.entries[i].id)
    IN /\ \A i \in 1..Len(record.entries) : record.entries[i].sequence = i
       /\ \A i, j \in 1..Len(record.entries) :
            i < j => \/ order(i) < order(j)
                     \/ /\ order(i) = order(j)
                        /\ StrLess(record.entries[i].id, record.entries[j].id)

\* The catalog record of the collection whose entries have the orders 1
\* (front matter), 1 (id prefix), none and the largest usize: four entries
\* in order of (order, id) with sequences 1, 2, 3, 4.
C15_Witness ==
  /\ fs = TreeEntries
  /\ selection = Unfiltered
  /\ Len(collection_catalog) = 1
  /\ [i \in 1..Len(collection_catalog[1].entries) |-> collection_catalog[1].entries[i].id]
       = <<<<"0","2","-","b">>, <<"1","-","a">>, <<"z","z">>, <<"z","z","z">>>>
  /\ [i \in 1..Len(collection_catalog[1].entries) |->
        collection_catalog[1].entries[i].sequence] = <<1, 2, 3, 4>>

\* The number a string of decimal digits denotes.
RECURSIVE DecimalValue(_)
DecimalValue(digits) ==
  IF digits = <<>> THEN 0
  ELSE 10 * DecimalValue(SubSeq(digits, 1, Len(digits) - 1))
       + (Ord[digits[Len(digits)]] - Ord["0"])

\* The leading ASCII digits of the part of an id before its first '-'.
LeadingDigits(id) ==
  LET stop == {i \in 1..Len(id) : ~IsAsciiDigit(id[i])}
  IN IF stop = {} THEN id ELSE SubSeq(id, 1, Min(stop) - 1)

\* The order the claim gives an entry: the front matter order, else the
\* number of the leading digits of its id, else none.
ClaimedOrder(c, entry_id) ==
  IF IsSome(EntryDocument(c, entry_id).frontmatter.order)
  THEN EntryDocument(c, entry_id).frontmatter.order
  ELSE IF LeadingDigits(entry_id) # <<>> THEN Some(DecimalValue(LeadingDigits(entry_id)))
  ELSE NoneOpt

\* C16: an entry's sort order is its front matter order when present,
\* otherwise the number formed by the leading ASCII digits of its id before
\* the first '-' (007-intro gives 7, 001-intro gives 1), otherwise none
\* (intro); an entry without order comes after every sibling that has a
\* numeric order, entries with equal orders and entries without order are
\* ordered by id.
C16_OrderResolution ==
  /\ ParseOrderFromId(<<"0","0","7","-","i","n","t","r","o">>) = Some(7)
  /\ ParseOrderFromId(<<"0","0","1","-","i","n","t","r","o">>) = Some(1)
  /\ ParseOrderFromId(<<"i","n","t","r","o">>) = NoneOpt
  /\ \A n \in 1..Len(collection_catalog) :
       LET record == collection_catalog[n]
           c == CollectionOf(record.id)
           order(i) == ClaimedOrder(c, record.entries[i].id)
       IN \A i, j \in 1..Len(record.entries) :
            i < j =>
              \/ IsSome(order(i)) /\ ~IsSome(order(j))
              \/ /\ IsSome(order(i)) /\ IsSome(order(j))
                 /\ Unwrap(order(i)) < Unwrap(order(j))
              \/ /\ order(i) = order(j)
                 /\ StrLess(record.entries[i].id, record.entries[j].id)

\* The positions of the headings of a body that have non-blank text.
TextHeadings(body) ==
  {i \in 1..Len(body) : body[i].kind = "heading" /\ TrimWs(body[i].text) # <<>>}

\* C17: an entry's title is the front matter title when present; otherwise
\* the trimmed text of the first heading of the body that has non-blank
\* text; otherwise the entry's id.  A lower source is used only when every
\* higher one is absent.
C17_TitleResolution ==
  \A n \in 1..Len(collection_catalog) :
    LET record == collection_catalog[n]
        c == CollectionOf(record.id)
    IN \A i \in 1..Len(record.entries) :
         LET entry == record.entries[i]
             document == EntryDocument(c, entry.id)
             headings == TextHeadings(document.body)
         IN /\ IsSome(document.frontmatter.title)
                 => entry.title = Unwrap(document.frontmatter.title)
            /\ (~IsSome(document.frontmatter.title) /\ headings # {})
                 => entry.title = TrimWs(document.body[Min(headings)].text)
            /\ (~IsSome(document.frontmatter.title) /\ headings = {})
                 => entry.title = entry.id

\* The entries of e/ are cataloged: one with a front matter title and a
\* heading, one with a heading only, one whose first heading is blank and
\* whose second is padded, one with a blank heading only.
C17_Witness ==
  /\ fs = TreeEntries
  /\ Len(collection_catalog) = 1
  /\ [i \in 1..Len(collection_catalog[1].entries) |-> collection_catalog[1].entries[i].title]
       = <<<<"T">>, <<"I","n","t","r","o">>, <<"Z">>, <<"z","z","z">>>>
  /\ TextHeadings(EntryDocument(CollectionOf(<<"e">>), <<"0","2","-","b">>).body) = {1}

CatalogIds == {collection_catalog[n].id : n \in 1..Len(collection_catalog)}

\* Nothing is recorded under a collection id.
NothingRecorded(id) ==
  /\ id \notin CatalogIds
  /\ \A n \in 1..Len(offline_entries) : offline_entries[n].collection_id # id
  /\ \A key \in DOMAIN asset_map : key[1] # id

\* The child directories of a walked directory that hold a metadata file
\* under the name the directory's layout gives it.
MetadataChildren(c) ==
  {child \in ReadDir(fs, c.collection_path) :
     /\ child.kind = "dir"
     /\ ~HasHiddenComponent(c.collection_path, child)
     /\ Exists(fs, Append(child.path, c.collection_layout.collection_metadata_file))}

\* The metadata a child directory's metadata file deserializes into, if any.
ChildMeta(c, child) ==
  LoadedMeta(WalkFrame(c.collection_layout, child.path, <<>>))

MetadataFile(c) ==
  {node \in fs : /\ node.kind = "file"
                 /\ node.path = Append(c.collection_path, c.parent_layout.collection_metadata_file)}

MetadataMissing(c) == MetadataFile(c) = {}
MetadataNotJson(c) ==
  \E node \in MetadataFile(c) : ~node.content.readable \/ ~node.content.json
MetadataWithoutTitle(c) ==
  \E node \in MetadataFile(c) :
    node.content.readable /\ node.content.json /\ ~IsSome(node.content.meta)

\* A child directory's metadata file, under the name the walked directory's
\* layout gives it, deserializes into a CollectionMeta.
ChildMetadataValid(c, child) ==
  \E node \in fs :
    /\ node.kind = "file"
    /\ node.path = Append(child.path, c.collection_layout.collection_metadata_file)
    /\ node.content.readable /\ node.content.json /\ IsSome(node.content.meta)

OverrideDocuments(path, inherited) ==
  {node.content.overrides : node \in
     {n \in fs : /\ n.kind = "file"
                 /\ n.path = Append(path, inherited.collection_metadata_file)
                 /\ n.content.readable /\ n.content.json}}

\* The layout the claim gives a directory: the caller's layout at the top,
\* below it the layout of the parent directory with the fields the
\* directory's own override object mentions replaced.
RECURSIVE ScopedLayout(_)
ScopedLayout(path) ==
  IF path = <<>> THEN Layout
  ELSE LET inherited == ScopedLayout(SubSeq(path, 1, Len(path) - 1))
           documents == OverrideDocuments(path, inherited)
       IN IF documents = {} THEN inherited
          ELSE LET mentioned == CHOOSE overrides \in documents : TRUE
               IN [field \in DOMAIN inherited |->
                     IF field \in DOMAIN mentioned /\ mentioned[field] # NoneOpt
                     THEN mentioned[field][1]
                     ELSE inherited[field]]

\* The directory a collection id names.
DirectoryOf(id) ==
  (CHOOSE node \in fs : node.kind = "dir" /\ JoinPath(node.path) = id).path

\* C20: the overrides of a collection's metadata file are merged into a copy
\* of the layout the collection received: every call of the walk on a
\* directory holds, once loaded, the layout of its parent directory with the
\* mentioned fields replaced and every other field inherited, whatever was
\* walked before it (siblings) and while its descendants are walked
\* (ancestors); its asset scan and its entry scan use that layout, and its
\* children receive it.
C20_ScopedLayoutOverrides ==
  /\ \A i \in 1..Len(stack) :
       /\ stack[i].fn = "walk" =>
            /\ stack[i].parent_layout
                 = ScopedLayout(SubSeq(stack[i].collection_path, 1,
                                       Len(stack[i].collection_path) - 1))
            /\ stack[i].phase # "load" =>
                 stack[i].collection_layout = ScopedLayout(stack[i].collection_path)
       /\ stack[i].fn = "collect" => stack[i].layout = ScopedLayout(CollectRoot(i))
  /\ \A n \in 1..Len(collection_catalog) :
       LET record == collection_catalog[n]
       IN \A i \in 1..Len(record.entries) :
            record.entries[i].source
              = record.id \o Slash \o record.entries[i].id \o Slash
                  \o ScopedLayout(DirectoryOf(record.id)).entry_markdown_file

\* o/k is being walked below o/: it has its own assets directory name, the
\* markdown and metadata file names of o/ and the caller's other fields,
\* while o/ keeps the caller's assets directory name and has cataloged its
\* entry under the markdown file name it overrides.
C20_Witness ==
  /\ fs = TreeOverride
  /\ Len(stack) = 3
  /\ stack[2].fn = "walk" /\ stack[2].collection_id = <<"o">>
  /\ stack[3].fn = "walk" /\ stack[3].collection_id = <<"o","/","k">>
  /\ stack[3].phase = "children"
  /\ stack[3].collection_layout =
       [Layout EXCEPT !.entry_assets_dir = <<"m","e","d","i","a">>,
                      !.entry_markdown_file = <<"r","e","a","d","m","e",".","m","d">>,
                      !.collection_metadata_file = <<"m","e","t","a",".","j","s","o","n">>]
  /\ stack[2].collection_layout =
       [Layout EXCEPT !.entry_markdown_file = <<"r","e","a","d","m","e",".","m","d">>,
                      !.collection_metadata_file = <<"m","e","t","a",".","j","s","o","n">>]
  /\ \E n \in 1..Len(collection_catalog) :
       /\ collection_catalog[n].id = <<"o">>
       /\ collection_catalog[n].entries[1].source = <<"o","/","1","-","e","/","r","e","a","d","m","e",".","m","d">>

(***************************************************************************)
(* The walk with its steps taken as long as one is possible: the function  *)
(* is sequential code that runs to its return.                             *)
(***************************************************************************)
\* The steps whose successor state takes no string or sorting computation.
LightNext ==
  \/ GenerateStart
  \/ GenerateSkip
  \/ GenerateWalk
  \/ GenerateReturn
  \/ WalkLoadQualified
  \/ WalkLoadSkipped
  \/ CollectSkipHidden
  \/ CollectSkipExcludedDir
  \/ CollectDescend
  \/ CollectIgnoreFile
  \/ CollectSkipFragment
  \/ CollectSkipExisting
  \/ CollectReturn
  \/ HeroSkip
  \/ EntrySkip
  \/ EntryUnparsed
  \/ ChildSkip
  \/ ChildWalk
  \/ WalkReturn

\* Weak fairness of a step whose enabling condition is the state predicate
\* ready: WF_vars(step) with ENABLED <<step>>_vars written out.
\* For the four steps below the condition is the first conjunct of the
\* step and the rest of the step only assigns.
FairCollectInsert == []<>(~CollectInsertReady) \/ []<><<CollectInsert>>_vars
FairHeroRegister == []<>(~HeroRegisterReady) \/ []<><<HeroRegister>>_vars
FairEntryProcess == []<>(~EntryProcessReady) \/ []<><<EntryProcess>>_vars
FairCatalogPush == []<>(~CatalogPushReady) \/ []<><<CatalogPush>>_vars

SpecLive ==
  /\ Init /\ [][Next]_vars
  /\ WF_vars(LightNext)
  /\ FairCollectInsert
  /\ FairHeroRegister
  /\ FairEntryProcess
  /\ FairCatalogPush

\* The directories of a registered collection that are entries whose
\* markdown file parses.
ParsedEntryIds(c) ==
  {FileName(entry) : entry \in
     {e \in ReadDir(fs, c.collection_path) :
        /\ IsEntryDir(c, e)
        /\ IsSome(ParseEntryMarkdown(fs, Append(e.path, c.collection_layout.entry_markdown_file)))}}

\* The manifest is complete: every registered collection has its record with
\* every entry that parses, its offline entries, and every eligible file
\* that can be listed.
ManifestComplete ==
  /\ CatalogIds = {c.collection_id : c \in Registered}
  /\ \A n \in 1..Len(collection_catalog) :
       LET record == collection_catalog[n]
       IN {record.entries[i].id : i \in 1..Len(record.entries)}
            = ParsedEntryIds(CollectionOf(record.id))
  /\ \A c \in Registered :
       /\ {offline_entries[n].entry_id :
             n \in {k \in 1..Len(offline_entries) :
                      offline_entries[k].collection_id = c.collection_id}}
            = ParsedEntryIds(c)
       /\ \A node \in FilesUnder(c.collection_path) :
            (/\ IsEligible(c, node)
             /\ ~HasHiddenComponent(c.collection_path, node)
             /\ ~InExcludedDir(c, node)
             /\ ~HasFragment(c, node))
              => <<c.collection_id, ForwardSlashPath(c.collection_path, node)>>
                   \in DOMAIN asset_map

\* C21: generate_offline_manifest always returns Ok with a completed
\* manifest: the walk reaches its return whatever directory cannot be read,
\* metadata file is missing or unparsable, markdown file cannot be read or
\* reference is unresolved, and what it returns holds every sibling
\* collection, entry and file that could be indexed.
C21_AlwaysCompletes ==
  /\ <>(pc = "done")
  /\ [](pc = "done" => ManifestComplete)

\* The returned manifest of the tree with an unreadable directory at the
\* top and one inside the assets directory, an entry whose markdown file
\* cannot be read and an entry with an unresolved reference: the entry
\* beside the unreadable one is cataloged, the file beside the unreadable
\* directory is collected, the entry with the unresolved reference has its
\* offline record without asset paths.
C21_Witness ==
  /\ pc = "done"
  /\ fs = TreeUnreadable
  /\ selection = Unfiltered
  /\ CatalogIds = {<<"r">>}
  /\ {collection_catalog[1].entries[i].id : i \in 1..Len(collection_catalog[1].entries)}
       = {<<"1","-","a">>, <<"2","-","n">>, <<"3","-","o">>}
  /\ <<<<"r">>, <<"a","s","s","e","t","s","/","o","k",".","p","n","g">>>> \in DOMAIN asset_map
  /\ <<<<"r">>, <<"a","s","s","e","t","s","/","l","o","c","k","e","d","/","p","i","c",".","p","n","g">>>> \notin DOMAIN asset_map
  /\ \E n \in 1..Len(offline_entries) :
       /\ offline_entries[n].entry_id = <<"1","-","a">>
       /\ CollectMarkdownAssetReferences(offline_entries[n].body) # {}
       /\ offline_entries[n].asset_paths = <<>>

\* The entry directories of a registered collection whose markdown file can
\* be read, with the file.
ReadableEntries(c) ==
  {entry \in ReadDir(fs, c.collection_path) :
     /\ IsEntryDir(c, entry)
     /\ IsSome(ReadToString(fs, Append(entry.path, c.collection_layout.entry_markdown_file)))}

EntryFile(c, entry) ==
  Unwrap(ReadToString(fs, Append(entry.path, c.collection_layout.entry_markdown_file)))

\* C22: an entry whose markdown file is readable but whose front matter is
\* missing or malformed is still in the catalog and in the offline records,
\* with default front matter: no section, and the title of the heading/id
\* rules; malformed front matter never removes the entry.
C22_FrontMatterDefaults ==
  pc = "done" =>
    \A c \in Registered :
      \A entry \in ReadableEntries(c) :
        EntryFile(c, entry).yaml # "record" =>
          /\ \E n \in 1..Len(offline_entries) :
               /\ offline_entries[n].collection_id = c.collection_id
               /\ offline_entries[n].entry_id = FileName(entry)
          /\ \E n \in 1..Len(collection_catalog) :
               /\ collection_catalog[n].id = c.collection_id
               /\ \E i \in 1..Len(collection_catalog[n].entries) :
                    LET record == collection_catalog[n].entries[i]
                        headings == TextHeadings(EntryFile(c, entry).body)
                    IN /\ record.id = FileName(entry)
                       /\ record.section = NoneOpt
                       /\ record.title = IF headings = {} THEN record.id
                                         ELSE TrimWs(EntryFile(c, entry).body[Min(headings)].text)

(***************************************************************************)
(* Specification of selection.rs: a selection file is loaded with          *)
(* load_from_path and the selection it gives is asked about a collection   *)
(* id.  The file is missing, unreadable for another reason, not selection  *)
(* JSON, or a document with an include and an exclude list, each of which  *)
(* may be left out.                                                        *)
(***************************************************************************)
MaxRules == 2

RawRules == {<<"a">>, <<"a","b">>, <<"a","/","b">>, <<" ","a">>, <<"/","a","/">>, <<"/">>, <<>>}
SelectionIds == {<<"a">>, <<"a","b">>, <<"a","/","b">>, <<"a","/","b","c">>, <<"b">>}

RawLists == {NoneOpt} \cup {Some(list) : list \in {l \in SUBSET RawRules : Cardinality(l) <= MaxRules}}

SelectionFiles ==
  {[kind |-> "missing"], [kind |-> "denied"], [kind |-> "garbage"]}
    \cup {[kind |-> "json", include |-> include, exclude |-> exclude] :
            include \in RawLists,
            exclude \in {l \in RawLists : l = NoneOpt \/ Cardinality(Unwrap(l)) < MaxRules}}

\* #[serde(default)]: a list that is left out is the empty list.
SerdeDefault(list) == IF IsSome(list) THEN Unwrap(list) ELSE {}

\* normalise_list
NormaliseList(values) == {TrimMatches(TrimWs(value), "/") : value \in values} \ {<<>>}

\* From<CollectionSelectionFile> for CollectionSelection
FromFile(file) ==
  LET include == NormaliseList(SerdeDefault(file.include))
      exclude == NormaliseList(SerdeDefault(file.exclude))
  IN [include |-> IF include # {} THEN Some(include) ELSE NoneOpt, exclude |-> exclude]

Ok(value) == [kind |-> "Ok", value |-> value]
Err(error) == [kind |-> "Err", error |-> error]

\* every read failure taken as a missing file
LoadFromPathLenient(file) ==
  CASE file.kind \in {"missing", "denied"} -> Ok(Unfiltered)
    [] file.kind = "garbage" -> Err("Parse")
    [] OTHER -> Ok(FromFile(file))

\* CollectionSelection::load_from_path
LoadFromPath(file) ==
  CASE file.kind = "missing" -> Ok(Unfiltered)
    [] file.kind = "denied" -> Err("Io")
    [] file.kind = "garbage" -> Err("Parse")
    [] OTHER -> Ok(FromFile(file))

InitSelection ==
  /\ pc = "start"
  /\ \E file \in SelectionFiles, collection_id \in SelectionIds :
       call = [file |-> file, collection_id |-> collection_id]
  /\ builder = NoneOpt
  /\ ret = NoneOpt
  /\ selection = Unfiltered
  /\ fs = {}
  /\ stack = <<>>
  /\ asset_map = <<>>
  /\ used_names = {}
  /\ hero_match_arms = <<>>
  /\ hero_asset_paths = {}
  /\ collection_catalog = <<>>
  /\ offline_entries = <<>>
  /\ pass = 0
  /\ previous = NoneOpt

\* let selection = CollectionSelection::load_from_path(path)?;
LoadSelection ==
  /\ pc = "start"
  /\ ret' = Some(LoadFromPath(call.file))
  /\ IF LoadFromPath(call.file).kind = "Ok"
     THEN selection' = LoadFromPath(call.file).value /\ pc' = "loaded"
     ELSE selection' = selection /\ pc' = "failed"
  /\ UNCHANGED <<call, builder, fs, stack, asset_map, used_names, hero_match_arms,
                 hero_asset_paths, collection_catalog, offline_entries, pass, previous>>

\* selection.is_included(collection_id)
AskIncluded ==
  /\ pc = "loaded"
  /\ builder' = Some(IsIncluded(selection, call.collection_id))
  /\ pc' = "done"
  /\ UNCHANGED <<call, ret, fs, selection, stack, asset_map, used_names, hero_match_arms,
                 hero_asset_paths, collection_catalog, offline_entries, pass, previous>>

NextSelection == LoadSelection \/ AskIncluded

SpecSelection == InitSelection /\ [][NextSelection]_vars

\* The rule equals the id or is an ancestor scope of it.
RuleCovers(rule, id) ==
  \/ rule = id
  \/ /\ Len(id) > Len(rule)
     /\ SubSeq(id, 1, Len(rule)) = rule
     /\ id[Len(rule) + 1] = "/"

\* No include list is configured: there is no file, or the list is left
\* out, empty, or holds only values that are blank after trimming.
NoIncludeList(file) ==
  \/ file.kind # "json"
  \/ file.include = NoneOpt
  \/ \A value \in Unwrap(file.include) : TrimMatches(TrimWs(value), "/") = <<>>

\* C23: is_included(id) is false whenever some exclude rule equals id or is
\* an ancestor scope of id, even if an include rule matches; otherwise it is
\* true exactly when no include list is configured or some include rule
\* equals id or is an ancestor scope of id.  A rule that only shares a
\* string prefix with the id, without a '/' boundary, does not match, and an
\* include rule for a child does not include its parent.
C23_IsIncluded ==
  pc = "done" =>
    LET id == call.collection_id
        excluded == \E rule \in selection.exclude : RuleCovers(rule, id)
        listed == /\ IsSome(selection.include)
                  /\ \E rule \in Unwrap(selection.include) : RuleCovers(rule, id)
    IN /\ excluded => builder = Some(FALSE)
       /\ ~excluded => (builder = Some(TRUE) <=> (NoIncludeList(call.file) \/ listed))
       /\ (/\ IsSome(selection.include)
           /\ \A rule \in Unwrap(selection.include) :
                rule # id /\ (StartsWith(id, rule) => id[Len(rule) + 1] # "/"))
            => builder = Some(FALSE)

\* The id a/b was asked for where the include list names it and the exclude
\* list names its parent, written with surrounding slashes.
C23_Witness ==
  /\ pc = "done"
  /\ call.collection_id = <<"a","/","b">>
  /\ call.file.kind = "json"
  /\ call.file.include = Some({<<"a","/","b">>, <<"a","b">>})
  /\ call.file.exclude = Some({<<"/","a","/">>})
  /\ builder = Some(FALSE)

\* C24: load_from_path returns the default, unfiltered selection, under
\* which every collection is included, when the selection file does not
\* exist, an Io error for any other read failure and a Parse error when the
\* file is not valid selection JSON; it returns a filtering selection only
\* when the file was read and parsed.
C24_LoadFromPath ==
  pc # "start" =>
    /\ call.file.kind = "missing" =>
         /\ ret = Some(Ok([include |-> NoneOpt, exclude |-> {}]))
         /\ pc = "done" => builder = Some(TRUE)
    /\ call.file.kind = "denied" => ret = Some(Err("Io")) /\ pc = "failed"
    /\ call.file.kind = "garbage" => ret = Some(Err("Parse")) /\ pc = "failed"
    /\ (/\ Unwrap(ret).kind = "Ok"
        /\ IsSome(Unwrap(ret).value.include) \/ Unwrap(ret).value.exclude # {})
         => call.file.kind = "json"

\* The file could not be read for a reason other than being missing: the
\* load has failed with an Io error and no selection was asked anything.
C24_Witness ==
  /\ pc = "failed"
  /\ call.file.kind = "denied"
  /\ ret = Some(Err("Io"))
  /\ builder = NoneOpt

\* The hero reference of the claim: leading slashes dropped, backslashes
\* turned into slashes.
NormalizedHero(reference) ==
  LET rest == {i \in 1..Len(reference) : reference[i] # "/"}
      trimmed == IF rest = {} THEN <<>> ELSE SubSeq(reference, Min(rest), Len(reference))
  IN [i \in 1..Len(trimmed) |-> IF trimmed[i] = "\\" THEN "/" ELSE trimmed[i]]

\* The cataloged collections whose metadata names a hero image that does not
\* normalize to the empty string.
HeroCollections ==
  {c \in Registered : /\ IsSome(Unwrap(c.meta).hero_image)
                      /\ NormalizedHero(Unwrap(Unwrap(c.meta).hero_image)) # <<>>}

HeroKey(c) == <<c.collection_id, NormalizedHero(Unwrap(Unwrap(c.meta).hero_image))>>

\* collections_dir_name/collection id/relative path
CanonicalBundlePath(c, relative_path) ==
  c.collection_layout.collections_dir_name \o Slash \o c.collection_id \o Slash \o relative_path

\* C25: when the walk is over, every cataloged collection whose metadata
\* names a hero image has the normalized reference registered in the asset
\* map under (collection id, normalized path), exactly one lookup fragment
\* naming that entry's identifier, and the entry's canonical bundle path in
\* hero_asset_paths; a reference that normalizes to the empty string
\* registers and records nothing, and no other collection contributes a
\* fragment or a hero path.
C25_HeroRegistration ==
  pc = "done" =>
    /\ \A c \in HeroCollections :
         /\ HeroKey(c) \in DOMAIN asset_map
         /\ asset_map[HeroKey(c)].relative_path = HeroKey(c)[2]
         /\ Cardinality({n \in 1..Len(hero_match_arms) :
                           hero_match_arms[n]
                             = HeroMatchArm(c.collection_id, asset_map[HeroKey(c)].const_name)}) = 1
         /\ CanonicalBundlePath(c, HeroKey(c)[2]) \in hero_asset_paths
    /\ Len(hero_match_arms) = Cardinality(HeroCollections)
    /\ hero_asset_paths = {CanonicalBundlePath(c, HeroKey(c)[2]) : c \in HeroCollections}
    /\ \A key \in DOMAIN asset_map : key[2] # <<>>

\* The walk of the tree with two hero images is over: the one of a/, written
\* with a leading slash, was already collected from disk, the one of b/ is
\* not on disk and was registered by the hero step; a/sub has none.
C25_Witness ==
  /\ pc = "done"
  /\ fs = TreeNested
  /\ selection = Unfiltered
  /\ Len(hero_match_arms) = 2
  /\ hero_asset_paths = {<<"p","r","o","g","r","a","m","s","/","a","/","a","s","s","e","t","s","/","c","o","v","e","r",".","p","n","g">>, <<"p","r","o","g","r","a","m","s","/","b","/","h","e","r","o",".","p","n","g">>}
  /\ <<<<"b">>, <<"h","e","r","o",".","p","n","g">>>> \in DOMAIN asset_map
  /\ CatalogIds = {<<"a">>, <<"a","/","s","u","b">>, <<"b">>}

(***************************************************************************)
(* Specification of builder.rs: prune_mirror_tree and the recursion of     *)
(* prune_mirror_subtree, one directory entry per step.  fs is the mirror   *)
(* tree with its root as the node of the empty path; call holds the paths  *)
(* to keep and the tree before the call.                                   *)
(***************************************************************************)
MirrorRoot == Dir(<<>>)

\* A mirror with kept and stale files at several depths and an empty
\* directory; one with a directory that cannot be listed; an empty one; no
\* mirror at all.
MirrorFull ==
  { MirrorRoot,
    Dir(<<<<"a">>>>),
    File(<<<<"a">>, <<"x">>>>, Blank),
    Dir(<<<<"a">>, <<"d">>>>),
    File(<<<<"a">>, <<"d">>, <<"y">>>>, Blank),
    Dir(<<<<"a">>, <<"e">>>>),
    Dir(<<<<"b">>>>),
    File(<<<<"b">>, <<"z">>>>, Blank),
    File(<<<<"c">>>>, Blank) }

MirrorLocked ==
  { MirrorRoot,
    File(<<<<"c">>>>, Blank),
    UnreadableDir(<<<<"u">>>>),
    File(<<<<"u">>, <<"f">>>>, Blank) }

MirrorTrees == {MirrorFull, MirrorLocked, {MirrorRoot}, {}}

\* Paths that may be asked to be kept: files of the mirrors, a directory,
\* and a path that is not in any mirror.
KeepPool ==
  { <<<<"a">>, <<"x">>>>, <<<<"a">>, <<"d">>, <<"y">>>>, <<<<"c">>>>,
    <<<<"a">>, <<"e">>>>, <<<<"n">>>> }

PruneFrame(relative) ==
  [fn |-> "prune", relative |-> relative, pending |-> ReadDir(fs, relative),
   has_required_descendants |-> FALSE]

\* every directory below the root reported as removable
ShouldRemoveAlways(frame) == frame.relative # <<>>

\* Ok(!has_required_descendants && !relative.as_os_str().is_empty())
ShouldRemove(frame) == ~frame.has_required_descendants /\ frame.relative # <<>>

\* fs::remove_dir_all(path)
RemoveDirAll(tree, path) ==
  {node \in tree : ~(Len(node.path) >= Len(path) /\ SubSeq(node.path, 1, Len(path)) = path)}

pruneUnchanged == <<builder, selection, asset_map, used_names, hero_match_arms,
                    hero_asset_paths, collection_catalog, offline_entries, pass, previous>>

InitPrune ==
  /\ pc = "start"
  /\ fs \in MirrorTrees
  /\ \E keep_files \in SUBSET KeepPool : call = [keep_files |-> keep_files, before |-> fs]
  /\ ret = NoneOpt
  /\ stack = <<>>
  /\ builder = <<>>
  /\ selection = {}
  /\ asset_map = <<>>
  /\ used_names = {}
  /\ hero_match_arms = <<>>
  /\ hero_asset_paths = {}
  /\ collection_catalog = <<>>
  /\ offline_entries = <<>>
  /\ pass = 0
  /\ previous = NoneOpt

\* if !root.exists() { return Ok(()); }
PruneMissingRoot ==
  /\ pc = "start"
  /\ MirrorRoot \notin fs
  /\ pc' = "done"
  /\ ret' = Some("Ok")
  /\ UNCHANGED <<call, fs, stack>>
  /\ UNCHANGED pruneUnchanged

\* prune_mirror_subtree(root, Path::new(""), keep_files)
PruneStart ==
  /\ pc = "start"
  /\ MirrorRoot \in fs
  /\ pc' = "prune"
  /\ stack' = <<PruneFrame(<<>>)>>
  /\ UNCHANGED <<call, fs, ret>>
  /\ UNCHANGED pruneUnchanged

\* a directory entry that can be listed: the recursive call
PruneDescend ==
  /\ pc = "prune"
  /\ \E entry \in Top.pending :
       /\ entry.kind = "dir"
       /\ entry.content.readable
       /\ stack' = Call(Advance(Top, entry), PruneFrame(entry.path))
  /\ UNCHANGED <<pc, call, fs, ret>>
  /\ UNCHANGED pruneUnchanged

\* fs::read_dir fails with an error other than NotFound: the error is
\* returned through every caller.
PruneFail ==
  /\ pc = "prune"
  /\ \E entry \in Top.pending : entry.kind = "dir" /\ ~entry.content.readable
  /\ pc' = "failed"
  /\ ret' = Some("Err")
  /\ stack' = <<>>
  /\ UNCHANGED <<call, fs>>
  /\ UNCHANGED pruneUnchanged

\* keep_files.contains(&child_relative)
PruneKeepFile ==
  /\ pc = "prune"
  /\ \E entry \in Top.pending :
       /\ entry.kind # "dir"
       /\ entry.path \in call.keep_files
       /\ stack' = ReplaceTop([Advance(Top, entry) EXCEPT !.has_required_descendants = TRUE])
  /\ UNCHANGED <<pc, call, fs, ret>>
  /\ UNCHANGED pruneUnchanged

\* fs::remove_file(&entry_path)
PruneRemoveFile ==
  /\ pc = "prune"
  /\ \E entry \in Top.pending :
       /\ entry.kind # "dir"
       /\ entry.path \notin call.keep_files
       /\ fs' = fs \ {entry}
       /\ stack' = ReplaceTop(Advance(Top, entry))
  /\ UNCHANGED <<pc, call, ret>>
  /\ UNCHANGED pruneUnchanged

\* the recursive call returned true: fs::remove_dir_all(&entry_path)
PruneReturnRemove ==
  /\ pc = "prune"
  /\ Len(stack) > 1
  /\ Top.pending = {}
  /\ ShouldRemove(Top)
  /\ fs' = RemoveDirAll(fs, Top.relative)
  /\ stack' = Return
  /\ UNCHANGED <<pc, call, ret>>
  /\ UNCHANGED pruneUnchanged

\* the recursive call returned false: has_required_descendants = true
PruneReturnKeep ==
  /\ pc = "prune"
  /\ Len(stack) > 1
  /\ Top.pending = {}
  /\ ~ShouldRemove(Top)
  /\ stack' = [Return EXCEPT ![Len(stack) - 1].has_required_descendants = TRUE]
  /\ UNCHANGED <<pc, call, fs, ret>>
  /\ UNCHANGED pruneUnchanged

\* the call on the root returned: its result is dropped, Ok(())
PruneFinish ==
  /\ pc = "prune"
  /\ Len(stack) = 1
  /\ Top.pending = {}
  /\ pc' = "done"
  /\ ret' = Some("Ok")
  /\ stack' = <<>>
  /\ UNCHANGED <<call, fs>>
  /\ UNCHANGED pruneUnchanged

NextPrune ==
  \/ PruneMissingRoot
  \/ PruneStart
  \/ PruneDescend
  \/ PruneFail
  \/ PruneKeepFile
  \/ PruneRemoveFile
  \/ PruneReturnRemove
  \/ PruneReturnKeep
  \/ PruneFinish

SpecPrune == InitPrune /\ [][NextPrune]_vars

\* The files of a tree below a directory whose path is to be kept.
KeptBelow(tree, dir) ==
  {node \in tree : /\ node.kind = "file"
                   /\ node.path \in call.keep_files
                   /\ Len(node.path) > Len(dir.path)
                   /\ SubSeq(node.path, 1, Len(dir.path)) = dir.path}

\* C26: after prune_mirror_tree(root, keep) succeeds, every file remaining
\* under root has its root-relative path in keep, every file whose path is
\* in keep and that existed before still exists, every directory with no
\* kept file among its descendants has been removed, and root still exists
\* even when nothing is kept.
C26_PruneMirrorTree ==
  (pc = "done" /\ ret = Some("Ok")) =>
    /\ \A node \in fs : node.kind = "file" => node.path \in call.keep_files
    /\ \A node \in call.before :
         (node.kind = "file" /\ node.path \in call.keep_files) => node \in fs
    /\ \A node \in call.before :
         (node.kind = "dir" /\ node.path # <<>> /\ KeptBelow(call.before, node) = {})
           => node \notin fs
    /\ MirrorRoot \in call.before => MirrorRoot \in fs

\* The mirror with files at several depths was pruned keeping a/d/y and a
\* path that names a directory: a/ and a/d/ remain with that one file, the
\* directory a/e named in keep, the stale files and b/ are gone.
C26_Witness ==
  /\ pc = "done"
  /\ ret = Some("Ok")
  /\ call.before = MirrorFull
  /\ call.keep_files = {<<<<"a">>, <<"d">>, <<"y">>>>, <<<<"a">>, <<"e">>>>}
  /\ fs = { MirrorRoot, Dir(<<<<"a">>>>), Dir(<<<<"a">>, <<"d">>>>),
            File(<<<<"a">>, <<"d">>, <<"y">>>>, Blank) }

\* C27: at every point of the walk the const_name identifiers of the entries
\* in the asset map are pairwise distinct and each is in the used-names set,
\* across collections, nested collections and hero registrations, for any
\* order of discovery.
C27_DistinctConstNames ==
  /\ \A key \in DOMAIN asset_map : asset_map[key].const_name \in used_names
  /\ \A key, other \in DOMAIN asset_map :
       key # other => asset_map[key].const_name # asset_map[other].const_name

\* The metadata file of a/sub is in the map twice, found by the scan of a/
\* and by the scan of a/sub: both sanitize to the same base and the second
\* got a counter.
C27_Witness ==
  /\ fs = TreeNested
  /\ <<<<"a">>, <<"s","u","b","/","c","o","l","l","e","c","t","i","o","n",".","j","s","o","n">>>> \in DOMAIN asset_map
  /\ <<<<"a","/","s","u","b">>, <<"c","o","l","l","e","c","t","i","o","n",".","j","s","o","n">>>> \in DOMAIN asset_map
  /\ asset_map[<<<<"a">>, <<"s","u","b","/","c","o","l","l","e","c","t","i","o","n",".","j","s","o","n">>>>].const_name = <<"A","_","S","U","B","_","C","O","L","L","E","C","T","I","O","N","_","J","S","O","N">>
  /\ asset_map[<<<<"a","/","s","u","b">>, <<"c","o","l","l","e","c","t","i","o","n",".","j","s","o","n">>>>].const_name = <<"A","_","S","U","B","_","C","O","L","L","E","C","T","I","O","N","_","J","S","O","N","_","1">>
  /\ Cardinality(used_names) = Cardinality(DOMAIN asset_map)

\* the entry ids of the offline records that carry a collection id
OfflineEntryIds(collection_id) ==
  {offline_entries[n].entry_id :
     n \in {m \in 1..Len(offline_entries) :
              offline_entries[m].collection_id = collection_id}}

\* C28: in the result, catalog and offline records correspond one to one:
\* the entry ids of every catalog record are the entry ids of the offline
\* records with its collection id, each (collection id, entry id) pair is in
\* exactly one offline record, and every offline record's collection id has
\* a catalog record.
C28_CatalogOfflineCorrespondence ==
  pc = "done" =>
    /\ \A i \in 1..Len(collection_catalog) :
         LET record == collection_catalog[i]
         IN {record.entries[k].id : k \in 1..Len(record.entries)}
              = OfflineEntryIds(record.id)
    /\ \A m, n \in 1..Len(offline_entries) :
         (/\ offline_entries[m].collection_id = offline_entries[n].collection_id
          /\ offline_entries[m].entry_id = offline_entries[n].entry_id) => m = n
    /\ \A n \in 1..Len(offline_entries) :
         offline_entries[n].collection_id \in CatalogIds

\* The walk is over a tree with two parsed entries in one collection, an entry
\* that could not be parsed, and a collection without entries.
C28_Witness ==
  /\ pc = "done"
  /\ fs = TreeUnreadable
  /\ selection = Unfiltered
  /\ CatalogIds = {<<"r">>}
  /\ OfflineEntryIds(<<"r">>) = {<<"1","-","a">>, <<"2","-","n">>, <<"3","-","o">>}
  /\ Len(offline_entries) = 3
  /\ Len(collection_catalog[1].entries) = 3

\* The canonical bundle paths of the asset map entries under a collection id.
CanonicalPathsOf(collection_id) ==
  {CanonicalBundlePath(CollectionOf(collection_id), asset_map[key].relative_path) :
     key \in {k \in DOMAIN asset_map :
                /\ k[1] = collection_id
                /\ asset_map[k].collection_id = collection_id
                /\ asset_map[k].relative_path = k[2]}}

\* C29: every path in an offline record's asset_paths, and every path in
\* hero_asset_paths, is the canonical bundle path of an entry of the final
\* asset map registered under the record's, or the hero collection's, own
\* collection id.
C29_PathsAreOwnCanonicalPaths ==
  pc = "done" =>
    /\ \A n \in 1..Len(offline_entries) :
         \A i \in 1..Len(offline_entries[n].asset_paths) :
           offline_entries[n].asset_paths[i]
             \in CanonicalPathsOf(offline_entries[n].collection_id)
    /\ \A path \in hero_asset_paths :
         \E c \in HeroCollections : path \in CanonicalPathsOf(c.collection_id)

\* Both a/01-intro and b/01-intro link img.png; only a/ has the file, so the
\* entry of a lists a's canonical path and the entry of b lists nothing.
C29_Witness ==
  /\ pc = "done"
  /\ fs = TreeNested
  /\ selection = Unfiltered
  /\ <<<<"a">>, <<"0","1","-","i","n","t","r","o","/","a","s","s","e","t","s","/","i","m","g",".","p","n","g">>>> \in DOMAIN asset_map
  /\ <<<<"b">>, <<"0","1","-","i","n","t","r","o","/","a","s","s","e","t","s","/","i","m","g",".","p","n","g">>>> \notin DOMAIN asset_map
  /\ \E m, n \in 1..Len(offline_entries) :
       /\ offline_entries[m].collection_id = <<"a">>
       /\ offline_entries[m].entry_id = <<"0","1","-","i","n","t","r","o">>
       /\ offline_entries[m].asset_paths = <<<<"p","r","o","g","r","a","m","s","/","a","/","0","1","-","i","n","t","r","o","/","a","s","s","e","t","s","/","i","m","g",".","p","n","g">>>>
       /\ offline_entries[n].collection_id = <<"b">>
       /\ offline_entries[n].entry_id = <<"0","1","-","i","n","t","r","o">>
       /\ offline_entries[n].asset_paths = <<>>
  /\ hero_asset_paths = {<<"p","r","o","g","r","a","m","s","/","a","/","a","s","s","e","t","s","/","c","o","v","e","r",".","p","n","g">>, <<"p","r","o","g","r","a","m","s","/","b","/","h","e","r","o",".","p","n","g">>}

\* The walked directories below another directory that have readable
\* metadata and whose collection id the selection does not include.
ExcludedNestedCollections ==
  {c \in Walked : /\ Len(c.collection_path) >= 2
                  /\ IsSome(c.meta)
                  /\ ~IsIncluded(selection, c.collection_id)}

\* The forward-slash path, from the collections root, of the file a key of
\* the asset map stands for.
KeyPath(key) == key[1] \o Slash \o key[2]

\* C30: no file under the directory of a nested collection that the
\* selection excludes is registered in the asset map, under any collection
\* id, the id of an included ancestor collection included.
C30_ExcludedNestedFilesUnregistered ==
  \A c \in ExcludedNestedCollections :
    \A node \in FilesUnder(c.collection_path) :
      \A key \in DOMAIN asset_map :
        KeyPath(key) # ReplaceChar(JoinPath(node.path), "\\", "/")

====
